---- MODULE Spec2Model ----
(***************************************************************************)
(* The journey-building pipeline of agents/orchestrator.py: per-source     *)
(* extraction, reconciliation of the extracted records, the brand and      *)
(* audience classifiers, the offer formatter and the merger, with the      *)
(* step records and progress notifications the Orchestrator produces.      *)
(***************************************************************************)
EXTENDS Integers, Sequences, FiniteSets, TLC

VARIABLES
    urls,             \* run(urls=...): what each submitted URL yields when extracted
    pdf_files,        \* run(pdf_files=...): what each uploaded document yields
    raising,          \* the collaborator that raises on these user_inputs ("none" if none)
    entry,            \* the entry point called: run or run_with_llm_reasoning
    client,           \* Orchestrator.client is set (an API key was given)
    on_progress,      \* Orchestrator.on_progress
    pc,               \* position of the call in run / _extract_content
    ui,               \* next index of `for url in urls`
    pi,               \* next index of `for filename, file_bytes in pdf_files`
    mi,               \* next index of `for extra in all_extractions[1:]`
    all_extractions,  \* _extract_content's list; merged is all_extractions[1]
    result,           \* the OrchestrationResult of the call
    exc,              \* the exception in flight to run's handler (<<>> if none)
    emitted,          \* the _emit_progress calls so far, with len(result.steps) at the call
    calls,            \* the collaborators invoked so far, in order
    runNo,            \* how many times run has been called on these inputs
    baseline,         \* the result the previous call of run returned (<<>> if none)
    seed,             \* the hash seed of the Python process (PYTHONHASHSEED)
    doc,              \* the page or text a source extractor is called on, or the
                      \* content and preferences analyze_brand is called on
    xpc,              \* position of that call ("idle" while the pipeline is modelled)
    out,              \* the record that call is building
    raised,           \* the exception that call let through to its caller (<<>> if none)
    prev,             \* what the previous call on the same input returned (<<>> if none)
    progress_queue,   \* app.py's queue.Queue between the orchestrator thread and the stream
    tpc,              \* position of the thread run_orchestrator
    todo,             \* the steps the orchestrator of that thread has yet to notify
    enqueued,         \* every event put on progress_queue so far, in order
    gpc,              \* position of the generator generate_events
    event,            \* the event the generator holds (<<>> if none)
    streamed,         \* the events the generator has yielded, in order
    seen              \* the queue held an event at some moment of the current get

vars == <<urls, pdf_files, raising, entry, client, on_progress, pc, ui, pi, mi,
          all_extractions, result, exc, emitted, calls, runNo, baseline,
          seed, doc, xpc, out, raised, prev,
          progress_queue, tpc, todo, enqueued, gpc, event, streamed, seen>>

\* the variables of the streaming endpoint
svars == <<progress_queue, tpc, todo, enqueued, gpc, event, streamed, seen>>

\* the variables of a single extractor or analyzer call, and of the stream
xvars == <<doc, xpc, out, raised, prev, svars>>

(***************************************************************************)
(* Bounds of the model.                                                    *)
(***************************************************************************)
\* how many sources (URLs and documents together) a run is given
MaxSources == 2

(***************************************************************************)
(* Caps of the program.                                                    *)
(***************************************************************************)
BenefitsCap == 5
FeaturesCap == 10
TestimonialsCap == 3
StatsCap == 5
SrcBenefitsCap == 5
SrcFeaturesCap == 8
SrcTestimonialsCap == 3
SrcStatsCap == 5
SrcPdfsCap == 5
SrcVideosCap == 3
SrcImagesCap == 10

(***************************************************************************)
(* Python values.                                                          *)
(***************************************************************************)
None == <<>>
Some(x) == <<x>>

Min(a, b) == IF a < b THEN a ELSE b

\* s[:n]
Take(s, n) == SubSeq(s, 1, Min(n, Len(s)))

Range(s) == {s[i] : i \in DOMAIN s}

Interval(lo, hi) == [i \in 1..(hi - lo + 1) |-> lo + i - 1]

\* the concatenation of the sequences of a sequence
RECURSIVE Flatten(_)
Flatten(ss) == IF ss = <<>> THEN <<>> ELSE Head(ss) \o Flatten(Tail(ss))

\* an extend whose membership tests all see the list as it was before the call
ExtendUniqueEager(acc, extra) == acc \o SelectSeq(extra, LAMBDA x : x \notin Range(acc))

\* acc.extend(x for x in extra if x not in acc): the generator is consumed
\* while acc grows, so each membership test sees the items appended before it.
RECURSIVE ExtendUnique(_, _)
ExtendUnique(acc, extra) ==
    IF extra = <<>> THEN acc
    ELSE ExtendUnique(IF Head(extra) \in Range(acc) THEN acc ELSE Append(acc, Head(extra)),
                      Tail(extra))

\* list(dict.fromkeys(s))
Dedup(s) == ExtendUnique(<<>>, s)

\* The hash seeds of two processes.  The iteration order of a set of strings
\* follows the strings' hashes, which are salted with the process's seed.
Seeds == {1, 16}

HashModulus == 17

\* hash(x) in a process with seed sd, for a string identified by the number x
Hash(sd, x) == (sd * x) % HashModulus

\* the elements of a set of numbers, smallest first
RECURSIVE Ascending(_)
Ascending(S) ==
    IF S = {} THEN <<>>
    ELSE LET x == CHOOSE y \in S : \A z \in S : y <= z
         IN <<x>> \o Ascending(S \ {x})

\* list(a_set): the table is walked slot by slot, so the elements come in the
\* order of their hashes (two elements of one slot in the order of their numbers)
SetOrder(S, sd) ==
    Flatten([slot \in 1..HashModulus |->
                Ascending({x \in S : Hash(sd, x) = slot - 1})])

(***************************************************************************)
(* ExtractedContent and the two source extractors, as far as the           *)
(* Orchestrator reads them.  What a source holds is a headline, a          *)
(* subheadline and a list of items; the extractors cap each list.          *)
(***************************************************************************)
NewExtractedContent(src, type) ==
    [source |-> src,
     source_type |-> type,
     value_proposition |-> [headline |-> "", subheadline |-> "", key_benefits |-> <<>>],
     product |-> [name |-> "", description |-> "", features |-> <<>>, outcomes |-> <<>>],
     social_proof |-> [testimonials |-> <<>>, stats |-> <<>>, trust_badges |-> <<>>],
     ctas |-> [primary |-> "", secondary |-> "", urls |-> <<>>],
     brand |-> [name |-> "", colors |-> <<>>, tone_keywords |-> <<>>, industry |-> ""],
     assets |-> [pdfs |-> <<>>, videos |-> <<>>, images |-> <<>>],
     raw_text |-> ""]

FetchErrorText == "Error fetching URL: Connection failed"

\* what _extract_brand and _extract_brand_from_text give a page that shows no tone
\* and no industry
DefaultTone == <<"professional">>
DefaultIndustry == "general business"

\* extract_from_url(url): a record; a transport error gives the empty record
\* whose raw_text states the error.
ExtractFromUrl(i, src) ==
    LET r == NewExtractedContent(<<"url", i>>, "url") IN
    IF src.kind = "fetch_error" THEN [r EXCEPT !.raw_text = FetchErrorText]
    ELSE [r EXCEPT
            !.value_proposition = [headline |-> src.h, subheadline |-> src.sh,
                                   key_benefits |-> Take(src.items, SrcBenefitsCap)],
            !.product.features = Take(src.items, SrcFeaturesCap),
            !.social_proof.testimonials = Take(src.items, SrcTestimonialsCap),
            !.social_proof.stats = Take(SetOrder(Range(src.items), seed), SrcStatsCap),
            !.assets.pdfs = Take(src.items, SrcPdfsCap),
            !.assets.videos = Take(src.items, SrcVideosCap),
            !.assets.images = Take(src.items, SrcImagesCap),
            !.brand.tone_keywords = DefaultTone,
            !.brand.industry = DefaultIndustry,
            !.raw_text = "text"]

\* extract_from_text(pdf_result.content, filename)
ExtractFromText(i, src) ==
    LET r == NewExtractedContent(<<"pdf", i>>, "pdf")
        items == Dedup(src.items)
    IN
    [r EXCEPT
        !.value_proposition = [headline |-> src.h, subheadline |-> src.sh,
                               key_benefits |-> Take(items, SrcBenefitsCap)],
        !.product.features = Take(items, SrcFeaturesCap),
        !.social_proof.testimonials = Take(items, SrcTestimonialsCap),
        !.social_proof.stats = Take(items, SrcStatsCap),
        !.assets.pdfs = Take(items, SrcPdfsCap),
        !.assets.videos = Take(items, SrcVideosCap),
        !.assets.images = Take(items, SrcImagesCap),
        !.ctas.primary = "Get Started",
        !.ctas.secondary = "Learn More",
        !.brand.tone_keywords = DefaultTone,
        !.brand.industry = DefaultIndustry,
        !.raw_text = "text"]

(***************************************************************************)
(* Reconciliation: the body of _extract_content after the source loops.    *)
(***************************************************************************)
FillIfEmptyOverwrite(cur, new) == IF new # "" THEN new ELSE cur

\* if not merged.x and extra.x: merged.x = extra.x
FillIfEmpty(cur, new) == IF cur = "" /\ new # "" THEN new ELSE cur

\* a reconciler that also supplements the call to action of the accumulator
MergeOneSupplementsCtas(merged, extra) ==
    [merged EXCEPT
        !.value_proposition.headline = FillIfEmpty(@, extra.value_proposition.headline),
        !.value_proposition.subheadline = FillIfEmpty(@, extra.value_proposition.subheadline),
        !.value_proposition.key_benefits = ExtendUnique(@, extra.value_proposition.key_benefits),
        !.product.features = ExtendUnique(@, extra.product.features),
        !.social_proof.testimonials = ExtendUnique(@, extra.social_proof.testimonials),
        !.social_proof.stats = ExtendUnique(@, extra.social_proof.stats),
        !.ctas.primary = FillIfEmpty(@, extra.ctas.primary),
        !.assets.pdfs = @ \o extra.assets.pdfs,
        !.assets.videos = @ \o extra.assets.videos]

\* one iteration of `for extra in all_extractions[1:]`
MergeOne(merged, extra) ==
    [merged EXCEPT
        !.value_proposition.headline = FillIfEmpty(@, extra.value_proposition.headline),
        !.value_proposition.subheadline = FillIfEmpty(@, extra.value_proposition.subheadline),
        !.value_proposition.key_benefits = ExtendUnique(@, extra.value_proposition.key_benefits),
        !.product.features = ExtendUnique(@, extra.product.features),
        !.social_proof.testimonials = ExtendUnique(@, extra.social_proof.testimonials),
        !.social_proof.stats = ExtendUnique(@, extra.social_proof.stats),
        !.assets.pdfs = @ \o extra.assets.pdfs,
        !.assets.videos = @ \o extra.assets.videos]

\* a reconciler that returns the lists as the loop left them
LimitListsNone(merged) == merged

\* "Deduplicate and limit"
LimitLists(merged) ==
    [merged EXCEPT
        !.value_proposition.key_benefits = Take(@, BenefitsCap),
        !.product.features = Take(@, FeaturesCap),
        !.social_proof.testimonials = Take(@, TestimonialsCap),
        !.social_proof.stats = Take(@, StatsCap)]

(***************************************************************************)
(* OrchestrationResult and its step records.                               *)
(***************************************************************************)
NewResult ==
    [status |-> "pending",
     steps |-> <<>>,
     extracted_content |-> None,
     brand_analysis |-> None,
     audience_suggestion |-> None,
     brand_markdown |-> <<>>,
     audience_markdown |-> <<>>,
     offer_markdown |-> <<>>,
     combined_brief |-> <<>>,
     error |-> None]

\* OrchestrationResult.add_step
AddStepReplacing(steps, name, status, message, res, error) ==
    <<[name |-> name, status |-> status, message |-> message, result |-> res, error |-> error]>>

AddStep(steps, name, status, message, res, error) ==
    Append(steps, [name |-> name, status |-> status, message |-> message,
                   result |-> res, error |-> error])

NoContentError == "No content could be extracted from provided sources"
CallbackError == "on_progress raised"
SourceError == "source raised"
PdfError == "PDF extraction failed: bad file"

\* a step's message: its text and, for a per-source step, the source it names
Msg(text, kind, i) == <<text, kind, i>>
Text(text) == Msg(text, "", 0)

\* what the classifiers, the formatter and the merger return
AnalyzeBrand(content) ==
    [company_name |-> content.brand.name,
     industry |-> content.brand.industry,
     tone |-> IF content.brand.tone_keywords = <<>> THEN <<"professional">>
              ELSE content.brand.tone_keywords,
     value_statement |-> content.value_proposition.headline]

BrandMarkdown(brand) == <<"# Brand Profile", brand.company_name, brand.value_statement>>

SuggestAudiences(content) ==
    [journey_type |-> "B2C", segments |-> <<"Primary Audience">>, recommended_paths |-> 1]

AudienceMarkdown(aud) == <<"# Audience Segments", aud.journey_type>>

OfferMarkdown(content) == <<"# Campaign Offer & Timeline", content.value_proposition.headline>>

MergeToBrief(brand_md, audience_md, offer_md) ==
    <<"# WhatsApp Journey Brief">> \o brand_md \o audience_md \o offer_md
        \o <<"## Platform Constraints", "## Pre-Generation Checklist">>

\* combined_brief.replace("## Pre-Generation Checklist", enhancement + checklist)
RECURSIVE Enhanced(_)
Enhanced(brief) ==
    IF brief = <<>> THEN <<>>
    ELSE (IF Head(brief) = "## Pre-Generation Checklist"
          THEN <<"## AI Enhancement Suggestions", "## Pre-Generation Checklist">>
          ELSE <<Head(brief)>>) \o Enhanced(Tail(brief))

(***************************************************************************)
(* Inputs.                                                                 *)
(***************************************************************************)
Source(kind, h, sh, items) == [kind |-> kind, h |-> h, sh |-> sh, items |-> items]

\* what the pages and documents of a run hold
PipeContents ==
    {Source("ok", "", "", <<>>),
     Source("ok", "X", "", <<1, 2>>),
     Source("ok", "Y", "S", <<2, 3>>)}

UrlSources == PipeContents \cup {Source(k, "", "", <<>>) : k \in {"fetch_error", "raise"}}
PdfSources == PipeContents \cup {Source(k, "", "", <<>>) : k \in {"convert_error", "raise"}}

Collaborators == {"brand", "brand_markdown", "audience", "audience_markdown", "offer", "merge"}

\* _emit_progress(step, message)
Emit(step) == Append(emitted, [step |-> step, at |-> Len(result.steps)])

\* a callback that raises whenever one is set
CallbackRaisesWhenSet == on_progress # "unset"

\* self.on_progress(step, message) raises
CallbackRaises == on_progress = "raises"

SourcesDone == ui > Len(urls) /\ pi > Len(pdf_files)

\* no streaming request is looked at
StreamIdle ==
    /\ progress_queue = <<>>
    /\ tpc = "idle"
    /\ todo = <<>>
    /\ enqueued = <<>>
    /\ gpc = "idle"
    /\ event = None
    /\ streamed = <<>>
    /\ seen = FALSE

\* no extractor or analyzer call is looked at on its own
ExtractorIdle ==
    /\ doc = None
    /\ xpc = "idle"
    /\ out = None
    /\ raised = None
    /\ prev = None
    /\ StreamIdle

\* The hash seeds to look at for the pages of a run: list(set(...)) of fewer
\* than two strings is the same list under every seed.
SeedsFor(pages) ==
    IF \E k \in DOMAIN pages : Cardinality(Range(pages[k].items)) > 1
    THEN Seeds ELSE {1}

InitCommon ==
    /\ ExtractorIdle
    /\ \E n \in 0..MaxSources : \E nu \in 0..n :
          /\ urls \in [1..nu -> UrlSources]
          /\ pdf_files \in [1..(n - nu) -> PdfSources]
    /\ seed \in SeedsFor(urls)
    /\ raising \in Collaborators \cup {"none"}
    /\ \E e \in {<<"run", FALSE>>, <<"run_with_llm_reasoning", FALSE>>,
                 <<"run_with_llm_reasoning", TRUE>>} :
           entry = e[1] /\ client = e[2]
    /\ pc = "start"
    /\ ui = 1 /\ pi = 1 /\ mi = 2
    /\ all_extractions = <<>>
    /\ result = NewResult
    /\ exc = None
    /\ emitted = <<>>
    /\ calls = <<>>
    /\ runNo = 1
    /\ baseline = None

Init == InitCommon /\ on_progress \in {"unset", "noop"}

inputs == <<urls, pdf_files, raising, entry, client, on_progress, runNo, baseline, seed>>

(***************************************************************************)
(* Orchestrator.run                                                        *)
(***************************************************************************)
\* result = OrchestrationResult(); status = EXTRACTING; emit "extract"
BeginRun ==
    /\ pc = "start"
    /\ result' = [NewResult EXCEPT !.status = "extracting"]
    /\ emitted' = Emit("extract")
    /\ IF CallbackRaises
       THEN exc' = Some(CallbackError) /\ pc' = "except"
       ELSE exc' = exc /\ pc' = "extract"
    /\ UNCHANGED <<inputs, xvars, ui, pi, mi, all_extractions, calls>>

\* a variant whose per-source try does not catch: a raising source ends the run
ExtractUrlUncaught ==
    /\ pc = "extract"
    /\ ui <= Len(urls)
    /\ emitted' = Emit("extract")
    /\ calls' = Append(calls, [fn |-> "extract_from_url", arg |-> ui])
    /\ IF urls[ui].kind = "raise"
       THEN /\ exc' = Some(SourceError)
            /\ pc' = "except"
            /\ UNCHANGED <<ui, all_extractions, result>>
       ELSE /\ ui' = ui + 1
            /\ all_extractions' = Append(all_extractions, ExtractFromUrl(ui, urls[ui]))
            /\ result' = [result EXCEPT !.steps =
                  AddStep(@, "extract_url", "complete",
                          Msg("Extracted from", "url", ui),
                          Some([source |-> <<"url", ui>>]), None)]
            /\ UNCHANGED <<exc, pc>>
    /\ UNCHANGED <<inputs, xvars, pi, mi>>

\* one iteration of `for url in urls`
ExtractUrl ==
    /\ pc = "extract"
    /\ ui <= Len(urls)
    /\ emitted' = Emit("extract")
    /\ IF CallbackRaises
       THEN /\ exc' = Some(CallbackError)
            /\ pc' = "except"
            /\ UNCHANGED <<ui, all_extractions, result, calls>>
       ELSE /\ calls' = Append(calls, [fn |-> "extract_from_url", arg |-> ui])
            /\ ui' = ui + 1
            /\ IF urls[ui].kind = "raise"
               THEN /\ result' = [result EXCEPT !.steps =
                          AddStep(@, "extract_url", "error",
                                  Msg("Failed to extract from", "url", ui),
                                  None, Some(SourceError))]
                    /\ UNCHANGED all_extractions
               ELSE /\ all_extractions' = Append(all_extractions, ExtractFromUrl(ui, urls[ui]))
                    /\ result' = [result EXCEPT !.steps =
                          AddStep(@, "extract_url", "complete",
                                  Msg("Extracted from", "url", ui),
                                  Some([source |-> <<"url", ui>>]), None)]
            /\ UNCHANGED <<exc, pc>>
    /\ UNCHANGED <<inputs, xvars, pi, mi>>

\* one iteration of `for filename, file_bytes in pdf_files`
ExtractPdf ==
    /\ pc = "extract"
    /\ ui > Len(urls)
    /\ pi <= Len(pdf_files)
    /\ emitted' = Emit("extract")
    /\ IF CallbackRaises
       THEN /\ exc' = Some(CallbackError)
            /\ pc' = "except"
            /\ UNCHANGED <<pi, all_extractions, result, calls>>
       ELSE /\ pi' = pi + 1
            /\ IF pdf_files[pi].kind = "ok"
               THEN /\ calls' = calls \o <<[fn |-> "extract_pdf_from_bytes", arg |-> pi],
                                           [fn |-> "extract_from_text", arg |-> pi]>>
                    /\ all_extractions' =
                          Append(all_extractions, ExtractFromText(pi, pdf_files[pi]))
                    /\ result' = [result EXCEPT !.steps =
                          AddStep(@, "extract_pdf", "complete",
                                  Msg("Extracted from", "pdf", pi),
                                  Some([source |-> <<"pdf", pi>>, pages |-> 1]), None)]
               ELSE /\ calls' = Append(calls, [fn |-> "extract_pdf_from_bytes", arg |-> pi])
                    /\ result' = [result EXCEPT !.steps =
                          AddStep(@, "extract_pdf", "error",
                                  Msg("Failed to extract from", "pdf", pi),
                                  None,
                                  Some(IF pdf_files[pi].kind = "convert_error"
                                       THEN PdfError ELSE SourceError))]
                    /\ UNCHANGED all_extractions
            /\ UNCHANGED <<exc, pc>>
    /\ UNCHANGED <<inputs, xvars, ui, mi>>

\* a variant that takes records with no headline and no benefit for no content
NoContentOnEmptyFields ==
    /\ pc = "extract"
    /\ SourcesDone
    /\ \A k \in DOMAIN all_extractions :
          /\ all_extractions[k].value_proposition.headline = ""
          /\ all_extractions[k].value_proposition.key_benefits = <<>>
    /\ result' = [result EXCEPT !.error = Some(NoContentError), !.status = "error"]
    /\ pc' = "returned"
    /\ UNCHANGED <<inputs, xvars, ui, pi, mi, all_extractions, exc, emitted, calls>>

\* `if not all_extractions: return None`, and run's `if not extracted:` branch
NoContent ==
    /\ pc = "extract"
    /\ SourcesDone
    /\ all_extractions = <<>>
    /\ result' = [result EXCEPT !.error = Some(NoContentError), !.status = "error"]
    /\ pc' = "returned"
    /\ UNCHANGED <<inputs, xvars, ui, pi, mi, all_extractions, exc, emitted, calls>>

\* merged = all_extractions[0]
BeginMerge ==
    /\ pc = "extract"
    /\ SourcesDone
    /\ all_extractions # <<>>
    /\ mi' = 2
    /\ pc' = "merge"
    /\ UNCHANGED <<inputs, xvars, ui, pi, all_extractions, result, exc, emitted, calls>>

\* one iteration of `for extra in all_extractions[1:]`
MergeStep ==
    /\ pc = "merge"
    /\ mi <= Len(all_extractions)
    /\ all_extractions' = [all_extractions EXCEPT ![1] = MergeOne(@, all_extractions[mi])]
    /\ mi' = mi + 1
    /\ UNCHANGED <<inputs, xvars, ui, pi, pc, result, exc, emitted, calls>>

\* the truncation of the four lists, and `return merged`
Limit ==
    /\ pc = "merge"
    /\ mi > Len(all_extractions)
    /\ all_extractions' = [all_extractions EXCEPT ![1] = LimitLists(@)]
    /\ pc' = "extracted"
    /\ UNCHANGED <<inputs, xvars, ui, pi, mi, result, exc, emitted, calls>>

\* result.extracted_content = extracted.to_dict(); add_step("extract", ...)
RecordExtract ==
    /\ pc = "extracted"
    /\ result' = [result EXCEPT
                    !.extracted_content = Some(all_extractions[1]),
                    !.steps = AddStep(@, "extract", "complete",
                                      Text("Extracted content from sources"), None, None)]
    /\ pc' = "brand"
    /\ UNCHANGED <<inputs, xvars, ui, pi, mi, all_extractions, exc, emitted, calls>>

\* Step 2: status = ANALYZING; emit "brand"; analyze_brand; generate_brand_markdown
BrandStep ==
    /\ pc = "brand"
    /\ emitted' = Emit("brand")
    /\ IF CallbackRaises
       THEN /\ result' = [result EXCEPT !.status = "analyzing"]
            /\ exc' = Some(CallbackError)
            /\ pc' = "except"
            /\ UNCHANGED calls
       ELSE IF raising = "brand"
       THEN /\ result' = [result EXCEPT !.status = "analyzing"]
            /\ calls' = Append(calls, [fn |-> "analyze_brand", arg |-> 0])
            /\ exc' = Some("brand raised")
            /\ pc' = "except"
       ELSE IF raising = "brand_markdown"
       THEN /\ result' = [result EXCEPT
                            !.status = "analyzing",
                            !.brand_analysis = Some(AnalyzeBrand(all_extractions[1]))]
            /\ calls' = calls \o <<[fn |-> "analyze_brand", arg |-> 0],
                                   [fn |-> "generate_brand_markdown", arg |-> 0]>>
            /\ exc' = Some("brand_markdown raised")
            /\ pc' = "except"
       ELSE /\ result' = [result EXCEPT
                            !.status = "analyzing",
                            !.brand_analysis = Some(AnalyzeBrand(all_extractions[1])),
                            !.brand_markdown = BrandMarkdown(AnalyzeBrand(all_extractions[1])),
                            !.steps = AddStep(@, "brand", "complete",
                                              Text("Analyzed brand"), None, None)]
            /\ calls' = calls \o <<[fn |-> "analyze_brand", arg |-> 0],
                                   [fn |-> "generate_brand_markdown", arg |-> 0]>>
            /\ exc' = exc
            /\ pc' = "audience"
    /\ UNCHANGED <<inputs, xvars, ui, pi, mi, all_extractions>>

\* Step 3: emit "audience"; suggest_audiences; generate_audience_markdown
AudienceStep ==
    /\ pc = "audience"
    /\ emitted' = Emit("audience")
    /\ IF CallbackRaises
       THEN /\ exc' = Some(CallbackError)
            /\ pc' = "except"
            /\ UNCHANGED <<result, calls>>
       ELSE IF raising = "audience"
       THEN /\ calls' = Append(calls, [fn |-> "suggest_audiences", arg |-> 0])
            /\ exc' = Some("audience raised")
            /\ pc' = "except"
            /\ UNCHANGED result
       ELSE IF raising = "audience_markdown"
       THEN /\ result' = [result EXCEPT
                            !.audience_suggestion = Some(SuggestAudiences(all_extractions[1]))]
            /\ calls' = calls \o <<[fn |-> "suggest_audiences", arg |-> 0],
                                   [fn |-> "generate_audience_markdown", arg |-> 0]>>
            /\ exc' = Some("audience_markdown raised")
            /\ pc' = "except"
       ELSE /\ result' = [result EXCEPT
                            !.audience_suggestion = Some(SuggestAudiences(all_extractions[1])),
                            !.audience_markdown =
                                AudienceMarkdown(SuggestAudiences(all_extractions[1])),
                            !.steps = AddStep(@, "audience", "complete",
                                              Text("Suggested audience segments"), None, None)]
            /\ calls' = calls \o <<[fn |-> "suggest_audiences", arg |-> 0],
                                   [fn |-> "generate_audience_markdown", arg |-> 0]>>
            /\ exc' = exc
            /\ pc' = "offer"
    /\ UNCHANGED <<inputs, xvars, ui, pi, mi, all_extractions>>

\* Step 4: status = GENERATING; emit "offer"; generate_offer_markdown
OfferStep ==
    /\ pc = "offer"
    /\ emitted' = Emit("offer")
    /\ IF CallbackRaises
       THEN /\ result' = [result EXCEPT !.status = "generating"]
            /\ exc' = Some(CallbackError)
            /\ pc' = "except"
            /\ UNCHANGED calls
       ELSE IF raising = "offer"
       THEN /\ result' = [result EXCEPT !.status = "generating"]
            /\ calls' = Append(calls, [fn |-> "generate_offer_markdown", arg |-> 0])
            /\ exc' = Some("offer raised")
            /\ pc' = "except"
       ELSE /\ result' = [result EXCEPT
                            !.status = "generating",
                            !.offer_markdown = OfferMarkdown(all_extractions[1]),
                            !.steps = AddStep(@, "offer", "complete",
                                              Text("Generated offer and timeline structure"),
                                              None, None)]
            /\ calls' = Append(calls, [fn |-> "generate_offer_markdown", arg |-> 0])
            /\ exc' = exc
            /\ pc' = "merge_brief"
    /\ UNCHANGED <<inputs, xvars, ui, pi, mi, all_extractions>>

\* a variant that notifies "complete" before the merge step is recorded
MergeBriefStepEarlyComplete ==
    /\ pc = "merge_brief"
    /\ raising \notin {"merge"}
    /\ result' = [result EXCEPT
                    !.combined_brief = MergeToBrief(result.brand_markdown,
                                                    result.audience_markdown,
                                                    result.offer_markdown),
                    !.steps = AddStep(@, "merge", "complete",
                                      Text("Created combined brief for review"), None, None),
                    !.status = "review"]
    /\ emitted' = emitted \o <<[step |-> "merge", at |-> Len(result.steps)],
                               [step |-> "complete", at |-> Len(result.steps)]>>
    /\ calls' = Append(calls, [fn |-> "merge_to_brief", arg |-> 0])
    /\ exc' = exc
    /\ pc' = "returned"
    /\ UNCHANGED <<inputs, xvars, ui, pi, mi, all_extractions>>

\* Step 5: emit "merge"; merge_to_brief; status = REVIEW; emit "complete"
MergeBriefStep ==
    /\ pc = "merge_brief"
    /\ IF CallbackRaises
       THEN /\ emitted' = Emit("merge")
            /\ exc' = Some(CallbackError)
            /\ pc' = "except"
            /\ UNCHANGED <<result, calls>>
       ELSE IF raising = "merge"
       THEN /\ emitted' = Emit("merge")
            /\ calls' = Append(calls, [fn |-> "merge_to_brief", arg |-> 0])
            /\ exc' = Some("merge raised")
            /\ pc' = "except"
            /\ UNCHANGED result
       ELSE /\ result' = [result EXCEPT
                            !.combined_brief = MergeToBrief(result.brand_markdown,
                                                            result.audience_markdown,
                                                            result.offer_markdown),
                            !.steps = AddStep(@, "merge", "complete",
                                              Text("Created combined brief for review"),
                                              None, None),
                            !.status = "review"]
            /\ emitted' = emitted \o <<[step |-> "merge", at |-> Len(result.steps)],
                                       [step |-> "complete", at |-> Len(result.steps) + 1]>>
            /\ calls' = Append(calls, [fn |-> "merge_to_brief", arg |-> 0])
            /\ exc' = exc
            /\ pc' = "returned"
    /\ UNCHANGED <<inputs, xvars, ui, pi, mi, all_extractions>>

\* a handler that goes on with the next stage instead of returning
HandleExceptionResume ==
    /\ pc = "except"
    /\ result' = [result EXCEPT
                    !.error = exc,
                    !.status = "error",
                    !.steps = AddStep(@, "error", "error", Text(exc[1]), None, exc)]
    /\ exc' = None
    /\ pc' = IF raising \in {"brand", "brand_markdown"} THEN "audience" ELSE "returned"
    /\ UNCHANGED <<inputs, xvars, ui, pi, mi, all_extractions, emitted, calls>>

\* a handler that records the error and leaves the status where the run stopped
HandleExceptionKeepsStatus ==
    /\ pc = "except"
    /\ result' = [result EXCEPT
                    !.error = exc,
                    !.steps = AddStep(@, "error", "error", Text(exc[1]), None, exc)]
    /\ exc' = None
    /\ pc' = "returned"
    /\ UNCHANGED <<inputs, xvars, ui, pi, mi, all_extractions, emitted, calls>>

\* except Exception as e: error = str(e); status = ERROR; add_step("error", ...)
HandleException ==
    /\ pc = "except"
    /\ result' = [result EXCEPT
                    !.error = exc,
                    !.status = "error",
                    !.steps = AddStep(@, "error", "error", Text(exc[1]), None, exc)]
    /\ exc' = None
    /\ pc' = "returned"
    /\ UNCHANGED <<inputs, xvars, ui, pi, mi, all_extractions, emitted, calls>>

(***************************************************************************)
(* Orchestrator.run_with_llm_reasoning, after run has returned             *)
(***************************************************************************)
Enhancing == entry = "run_with_llm_reasoning" /\ client /\ result.status # "error"

\* run's caller gets the result as it is
Return ==
    /\ pc = "returned"
    /\ ~Enhancing
    /\ pc' = "done"
    /\ UNCHANGED <<inputs, xvars, ui, pi, mi, all_extractions, result, exc, emitted, calls>>

\* the LLM answers: add_step("enhance", "complete", ...)
EnhanceComplete ==
    /\ pc = "returned"
    /\ Enhancing
    /\ ~CallbackRaises
    /\ \E enhancement \in {"", "text"} :
          result' = [result EXCEPT
                       !.combined_brief = IF enhancement = "" THEN @ ELSE Enhanced(@),
                       !.steps = AddStep(@, "enhance", "complete",
                                         Text("Added AI enhancement suggestions"), None, None)]
    /\ emitted' = Emit("enhance")
    /\ calls' = Append(calls, [fn |-> "messages.create", arg |-> 0])
    /\ pc' = "done"
    /\ UNCHANGED <<inputs, xvars, ui, pi, mi, all_extractions, exc>>

\* a handler that treats a failed enhancement as the failure of the run
EnhanceSkippedFatal ==
    /\ pc = "returned"
    /\ Enhancing
    /\ result' = [result EXCEPT
                    !.status = "error",
                    !.error = Some("enhance raised"),
                    !.steps = AddStep(@, "enhance", "skipped",
                                      Text("AI enhancement skipped"), None, None)]
    /\ emitted' = Emit("enhance")
    /\ calls' = IF CallbackRaises THEN calls
                ELSE Append(calls, [fn |-> "messages.create", arg |-> 0])
    /\ pc' = "done"
    /\ UNCHANGED <<inputs, xvars, ui, pi, mi, all_extractions, exc>>

\* the LLM call (or the callback) raises: add_step("enhance", "skipped", ...)
EnhanceSkipped ==
    /\ pc = "returned"
    /\ Enhancing
    /\ result' = [result EXCEPT
                    !.steps = AddStep(@, "enhance", "skipped",
                                      Text("AI enhancement skipped"), None, None)]
    /\ emitted' = Emit("enhance")
    /\ calls' = IF CallbackRaises THEN calls
                ELSE Append(calls, [fn |-> "messages.create", arg |-> 0])
    /\ pc' = "done"
    /\ UNCHANGED <<inputs, xvars, ui, pi, mi, all_extractions, exc>>

Next ==
    \/ BeginRun
    \/ ExtractUrl
    \/ ExtractPdf
    \/ NoContent
    \/ BeginMerge
    \/ MergeStep
    \/ Limit
    \/ RecordExtract
    \/ BrandStep
    \/ AudienceStep
    \/ OfferStep
    \/ MergeBriefStep
    \/ HandleException
    \/ Return
    \/ EnhanceComplete
    \/ EnhanceSkipped

Spec == Init /\ [][Next]_vars

(***************************************************************************)
(* The caller of app.py's streaming endpoint sets on_progress and calls    *)
(* run; here run is called a second time on the same inputs with a         *)
(* callback set, which may be one that raises.                             *)
(***************************************************************************)
RunAgain ==
    /\ pc = "done"
    /\ entry = "run"
    /\ runNo = 1
    /\ baseline' = Some(result)
    /\ runNo' = 2
    /\ on_progress' \in {"noop", "raises"}
    /\ pc' = "start"
    /\ ui' = 1 /\ pi' = 1 /\ mi' = 2
    /\ all_extractions' = <<>>
    /\ result' = NewResult
    /\ exc' = None
    /\ emitted' = <<>>
    /\ calls' = <<>>
    /\ UNCHANGED <<urls, pdf_files, raising, entry, client, seed, xvars>>

InitCallback == InitCommon /\ on_progress = "unset"

NextCallback == Next \/ RunAgain

SpecCallback == InitCallback /\ [][NextCallback]_vars

(***************************************************************************)
(* The reconciler on its own: the records of up to MaxSources sources that *)
(* were all extracted, the first `nu` of them URLs, the rest documents.    *)
(***************************************************************************)
\* three distinct list items
Items == {1, 2, 3}

\* short lists: without and with a repeated item, in both orders
ShortLists == {<<>>} \cup {<<a>> : a \in Items} \cup {<<1, 2>>, <<2, 1>>, <<2, 3>>, <<3, 3>>}

\* lists long enough for the caps to cut them
LongLists ==
    {Interval(1, SrcFeaturesCap),
     Interval(SrcFeaturesCap - 2, 2 * SrcFeaturesCap - 3),
     Interval(4, 3 + SrcFeaturesCap),
     Interval(1, SrcImagesCap + 2)}

RichContents ==
    {Source("ok", h, sh, <<>>) : h \in {"", "X", "Y"}, sh \in {"", "S"}}
        \cup {Source("ok", "", "", l) : l \in ShortLists \cup LongLists}

InitReconcile ==
    /\ ExtractorIdle
    /\ \E n \in 1..MaxSources : \E nu \in 0..n : \E srcs \in [1..n -> RichContents] :
          /\ urls = SubSeq(srcs, 1, nu)
          /\ pdf_files = SubSeq(srcs, nu + 1, n)
          /\ seed \in SeedsFor(urls)
          /\ all_extractions = [k \in 1..n |-> IF k <= nu THEN ExtractFromUrl(k, srcs[k])
                                               ELSE ExtractFromText(k - nu, srcs[k])]
          /\ ui = nu + 1
          /\ pi = n - nu + 1
          /\ result = [NewResult EXCEPT
                !.status = "extracting",
                !.steps = [k \in 1..n |->
                    IF k <= nu
                    THEN [name |-> "extract_url", status |-> "complete",
                          message |-> Msg("Extracted from", "url", k),
                          result |-> Some([source |-> <<"url", k>>]), error |-> None]
                    ELSE [name |-> "extract_pdf", status |-> "complete",
                          message |-> Msg("Extracted from", "pdf", k - nu),
                          result |-> Some([source |-> <<"pdf", k - nu>>, pages |-> 1]),
                          error |-> None]]]
          /\ emitted = [k \in 1..(n + 1) |->
                           [step |-> "extract", at |-> IF k = 1 THEN 0 ELSE k - 2]]
          /\ calls = Flatten([k \in 1..n |->
                IF k <= nu
                THEN <<[fn |-> "extract_from_url", arg |-> k]>>
                ELSE <<[fn |-> "extract_pdf_from_bytes", arg |-> k - nu],
                       [fn |-> "extract_from_text", arg |-> k - nu]>>])
    /\ raising = "none"
    /\ entry = "run"
    /\ client = FALSE
    /\ on_progress = "unset"
    /\ pc = "merge"
    /\ mi = 2
    /\ exc = None
    /\ runNo = 1
    /\ baseline = None

NextReconcile == MergeStep \/ Limit

SpecReconcile == InitReconcile /\ [][NextReconcile]_vars

(***************************************************************************)
(* What the claims speak of.                                               *)
(***************************************************************************)
\* the records the submitted sources yield, URLs first, then documents
UrlRecords ==
    LET idx == SelectSeq([i \in 1..Len(urls) |-> i], LAMBDA i : urls[i].kind # "raise")
    IN [k \in 1..Len(idx) |-> ExtractFromUrl(idx[k], urls[idx[k]])]

PdfRecords ==
    LET idx == SelectSeq([i \in 1..Len(pdf_files) |-> i], LAMBDA i : pdf_files[i].kind = "ok")
    IN [k \in 1..Len(idx) |-> ExtractFromText(idx[k], pdf_files[idx[k]])]

SourceRecords == UrlRecords \o PdfRecords

\* the first non-empty string of a sequence of strings, "" if there is none
FirstNonEmpty(strs) ==
    IF \A i \in DOMAIN strs : strs[i] = "" THEN ""
    ELSE strs[CHOOSE i \in DOMAIN strs : strs[i] # "" /\ \A j \in 1..(i - 1) : strs[j] = ""]

\* the reconciled record: the accumulator, once the merge loop has begun
Merged == all_extractions[1]

\* the records merged into the accumulator so far
MergedSoFar == SubSeq(SourceRecords, 1, IF pc = "merge" THEN mi - 1 ELSE Len(SourceRecords))

Reconciling == pc \in {"merge", "extracted"}

\* C1: the reconciled headline (and, independently, the subheadline) is that of
\* the first record, URLs first and then documents, whose value is non-empty, and
\* is empty only if every record's is: at every point of the merge loop the
\* accumulator holds the first non-empty value of the records merged so far, so
\* a later record never overwrites it, and the record run stores is that one.
C1_FirstNonEmptyWins ==
    /\ Reconciling =>
          LET recs == MergedSoFar IN
          /\ Merged.value_proposition.headline =
                FirstNonEmpty([k \in DOMAIN recs |-> recs[k].value_proposition.headline])
          /\ Merged.value_proposition.subheadline =
                FirstNonEmpty([k \in DOMAIN recs |-> recs[k].value_proposition.subheadline])
    /\ result.extracted_content # None =>
          LET recs == SourceRecords IN
          /\ result.extracted_content[1].value_proposition.headline =
                FirstNonEmpty([k \in DOMAIN recs |-> recs[k].value_proposition.headline])
          /\ result.extracted_content[1].value_proposition.subheadline =
                FirstNonEmpty([k \in DOMAIN recs |-> recs[k].value_proposition.subheadline])

\* a URL with headline X and no subheadline and a document with headline Y and
\* subheadline S reconcile to headline X, subheadline S
C1_Witness ==
    /\ pc = "brand"
    /\ Len(urls) = 1 /\ Len(pdf_files) = 1
    /\ urls[1].kind = "ok" /\ urls[1].h = "X" /\ urls[1].sh = ""
    /\ pdf_files[1].kind = "ok" /\ pdf_files[1].h = "Y" /\ pdf_files[1].sh = "S"
    /\ result.extracted_content[1].value_proposition.headline = "X"
    /\ result.extracted_content[1].value_proposition.subheadline = "S"

\* the first list, then the items of the later lists that are neither in the
\* first list nor an earlier item of the later lists, in their order; cut to cap
UnionInOrder(lists, cap) ==
    LET first == Head(lists)
        later == Flatten(Tail(lists))
        keep == SelectSeq([p \in DOMAIN later |-> p],
                          LAMBDA p : /\ later[p] \notin Range(first)
                                     /\ \A q \in 1..(p - 1) : later[q] # later[p])
    IN Take(first \o [k \in DOMAIN keep |-> later[keep[k]]], cap)

\* C2: each of key_benefits, features, testimonials and stats of the reconciled
\* record is the first record's list followed, record by record in source order,
\* by the items not already in the list at that moment, cut to its first 5, 10,
\* 3 and 5 items.
C2_ListsUnionInOrder ==
    pc = "extracted" =>
        LET recs == SourceRecords IN
        /\ Merged.value_proposition.key_benefits =
              UnionInOrder([k \in DOMAIN recs |-> recs[k].value_proposition.key_benefits], 5)
        /\ Merged.product.features =
              UnionInOrder([k \in DOMAIN recs |-> recs[k].product.features], 10)
        /\ Merged.social_proof.testimonials =
              UnionInOrder([k \in DOMAIN recs |-> recs[k].social_proof.testimonials], 3)
        /\ Merged.social_proof.stats =
              UnionInOrder([k \in DOMAIN recs |-> recs[k].social_proof.stats], 5)

\* sources A (benefits [1,2]) and B (benefits [2,3]) reconciled as [A,B] give [1,2,3]
C2_Witness ==
    /\ pc = "extracted"
    /\ Len(SourceRecords) = 2
    /\ SourceRecords[1].value_proposition.key_benefits = <<1, 2>>
    /\ SourceRecords[2].value_proposition.key_benefits = <<2, 3>>
    /\ Merged.value_proposition.key_benefits = <<1, 2, 3>>

StepNames == [k \in DOMAIN result.steps |-> result.steps[k].name]

CompleteSteps ==
    LET done == SelectSeq(result.steps, LAMBDA st : st.status = "complete")
    IN [k \in DOMAIN done |-> done[k].name]

Called(fn) == \E k \in DOMAIN calls : calls[k].fn = fn

\* nothing was extracted: every field is empty or the extractor's default
AllFieldsEmpty(rec) ==
    /\ rec.value_proposition = [headline |-> "", subheadline |-> "", key_benefits |-> <<>>]
    /\ rec.product = [name |-> "", description |-> "", features |-> <<>>, outcomes |-> <<>>]
    /\ rec.social_proof = [testimonials |-> <<>>, stats |-> <<>>, trust_badges |-> <<>>]
    /\ rec.ctas.urls = <<>>
    /\ rec.brand.name = "" /\ rec.brand.colors = <<>>
    /\ rec.brand.tone_keywords \in {<<>>, DefaultTone}
    /\ rec.brand.industry \in {"", DefaultIndustry}
    /\ rec.assets = [pdfs |-> <<>>, videos |-> <<>>, images |-> <<>>]

NoSources == urls = <<>> /\ pdf_files = <<>>

\* one source, whose extraction succeeded with every structured field empty
OneEmptySource ==
    /\ Len(urls) + Len(pdf_files) = 1
    /\ Len(SourceRecords) = 1
    /\ AllFieldsEmpty(SourceRecords[1])

FiveSteps == <<"extract", "brand", "audience", "offer", "merge">>

\* C3: a run with no source ends in ERROR with the no-content error and never
\* sets brand_analysis or audience_suggestion; a run with one source extracted
\* with every field empty (and no collaborator failing) records the five steps
\* complete and ends in REVIEW.
C3_EmptyListVersusEmptyFields ==
    /\ NoSources =>
          /\ result.brand_analysis = None
          /\ result.audience_suggestion = None
          /\ pc = "done" => /\ result.status = "error"
                            /\ result.error = Some(NoContentError)
    /\ (OneEmptySource /\ raising = "none" /\ pc = "done") =>
          /\ result.status = "review"
          /\ result.error = None
          /\ \A k \in DOMAIN FiveSteps : \E j \in DOMAIN CompleteSteps :
                CompleteSteps[j] = FiveSteps[k]

C3_Witness ==
    /\ pc = "done"
    /\ OneEmptySource
    /\ urls # <<>> /\ urls[1].kind = "ok"
    /\ raising = "none"
    /\ result.status = "review"
    /\ result.extracted_content # None
    /\ AllFieldsEmpty(result.extracted_content[1])

\* every URL fetch ended in a transport error and every document conversion failed
AllSourcesFailed ==
    /\ ~NoSources
    /\ \A i \in DOMAIN urls : urls[i].kind = "fetch_error"
    /\ \A i \in DOMAIN pdf_files : pdf_files[i].kind \in {"convert_error", "raise"}

\* C4: if every supplied source fails, the run ends in ERROR with the no-content
\* error and neither classifier is invoked.
C4_AllSourcesFailedIsFatal ==
    AllSourcesFailed =>
        /\ ~Called("analyze_brand")
        /\ ~Called("suggest_audiences")
        /\ pc = "done" => /\ result.status = "error"
                          /\ result.error = Some(NoContentError)

\* the per-source step records, in order
SourceSteps == SelectSeq(result.steps, LAMBDA st : st.name \in {"extract_url", "extract_pdf"})

\* the extractor calls, in order
SourceCalls ==
    SelectSeq(calls, LAMBDA c : c.fn \in {"extract_from_url", "extract_pdf_from_bytes"})

\* the k-th source in submission order, URLs first
KthSource(k) ==
    IF k <= Len(urls)
    THEN [fn |-> "extract_from_url", arg |-> k, step |-> "extract_url",
          yields |-> urls[k].kind # "raise"]
    ELSE [fn |-> "extract_pdf_from_bytes", arg |-> k - Len(urls), step |-> "extract_pdf",
          yields |-> pdf_files[k - Len(urls)].kind = "ok"]

\* C5: the sources are attempted once each, in order, each attempt appending one
\* extract_url/extract_pdf record, complete or error; once the source loops are
\* left every source has been attempted, whatever the earlier ones did; and the
\* run goes past extraction whenever one source yielded a record.
C5_EverySourceAttemptedOnce ==
    /\ Len(SourceCalls) = Len(SourceSteps)
    /\ Len(SourceCalls) <= Len(urls) + Len(pdf_files)
    /\ \A k \in DOMAIN SourceCalls :
          /\ SourceCalls[k].fn = KthSource(k).fn
          /\ SourceCalls[k].arg = KthSource(k).arg
          /\ SourceSteps[k].name = KthSource(k).step
          /\ SourceSteps[k].status = IF KthSource(k).yields THEN "complete" ELSE "error"
    /\ pc \notin {"start", "extract"} => Len(SourceCalls) = Len(urls) + Len(pdf_files)
    /\ (pc = "done" /\ \E k \in 1..(Len(urls) + Len(pdf_files)) : KthSource(k).yields) =>
          /\ result.extracted_content # None
          /\ \E j \in DOMAIN result.steps :
                result.steps[j].name = "extract" /\ result.steps[j].status = "complete"

\* the first URL raises and the second yields a record: two per-source
\* records, and the run went on to the review
C5_Witness ==
    /\ pc = "done"
    /\ Len(urls) = 2
    /\ urls[1].kind = "raise" /\ urls[2].kind = "ok"
    /\ Len(SourceSteps) = 2
    /\ SourceSteps[1].status = "error"
    /\ SourceSteps[2].status = "complete"
    /\ Len(all_extractions) = 1
    /\ result.status = "review"

\* the collaborators of steps 2 to 5, in the order run calls them
CollaboratorOrder ==
    <<"analyze_brand", "generate_brand_markdown", "suggest_audiences",
      "generate_audience_markdown", "generate_offer_markdown", "merge_to_brief">>

\* how many of them are called when `who` is the one that raises
CallsUpTo(who) ==
    CASE who = "brand" -> 1
      [] who = "brand_markdown" -> 2
      [] who = "audience" -> 3
      [] who = "audience_markdown" -> 4
      [] who = "offer" -> 5
      [] who = "merge" -> 6

\* how many of the five steps are complete when `who` raises
StepsBefore(who) ==
    CASE who \in {"brand", "brand_markdown"} -> 1
      [] who \in {"audience", "audience_markdown"} -> 2
      [] who = "offer" -> 3
      [] who = "merge" -> 4

\* str(e) of the exception `who` raises
RaisedBy(who) ==
    CASE who = "brand" -> "brand raised"
      [] who = "brand_markdown" -> "brand_markdown raised"
      [] who = "audience" -> "audience raised"
      [] who = "audience_markdown" -> "audience_markdown raised"
      [] who = "offer" -> "offer raised"
      [] who = "merge" -> "merge raised"

PipelineCalls ==
    LET cs == SelectSeq(calls, LAMBDA c : c.fn \in Range(CollaboratorOrder))
    IN [k \in DOMAIN cs |-> cs[k].fn]

\* the records of the five steps, in the order recorded
PipelineSteps == SelectSeq(result.steps, LAMBDA st : st.name \in Range(FiveSteps))

\* a collaborator raises in a run that extracted content
CollaboratorFails == raising # "none" /\ all_extractions # <<>>

\* C6: when the brand classifier, the audience classifier, the offer formatter
\* or the merger raises, no collaborator after it is ever called, and the run
\* returns with status ERROR, the exception's message as error, a last step
\* record of status error carrying that message, and complete records for the
\* steps before the failing one only.
C6_CollaboratorFailureStopsRun ==
    CollaboratorFails =>
        /\ Len(PipelineCalls) <= CallsUpTo(raising)
        /\ PipelineCalls = SubSeq(CollaboratorOrder, 1, Len(PipelineCalls))
        /\ pc \in {"returned", "done"} =>
              /\ result.status = "error"
              /\ result.error = Some(RaisedBy(raising))
              /\ Len(PipelineCalls) = CallsUpTo(raising)
              /\ LET last == result.steps[Len(result.steps)]
                 IN /\ last.name = "error"
                    /\ last.status = "error"
                    /\ last.error = Some(RaisedBy(raising))
                    /\ last.message = Text(RaisedBy(raising))
              /\ Cardinality({k \in DOMAIN result.steps :
                                 result.steps[k].status = "error"
                                 /\ result.steps[k].name = "error"}) = 1
              /\ [k \in DOMAIN PipelineSteps |-> PipelineSteps[k].name] =
                     SubSeq(FiveSteps, 1, StepsBefore(raising))

\* the audience classifier raised after the brand step completed
C6_Witness ==
    /\ pc = "done"
    /\ raising = "audience"
    /\ result.status = "error"
    /\ result.error = Some("audience raised")
    /\ Called("suggest_audiences")
    /\ result.brand_analysis # None
    /\ result.audience_suggestion = None
    /\ result.steps[Len(result.steps)].name = "error"

\* an output that has been produced
IsSet(v) == v # <<>>

\* C7: a step of the run leaves every recorded step record where and as it
\* was, and every output already produced (extracted_content, brand_analysis,
\* audience_suggestion and the three markdowns) unchanged; so the result of a
\* run that ends in ERROR still holds all of them.
C7_StepsAppendOnly ==
    [][/\ Len(result'.steps) >= Len(result.steps)
       /\ SubSeq(result'.steps, 1, Len(result.steps)) = result.steps
       /\ IsSet(result.extracted_content) => result'.extracted_content = result.extracted_content
       /\ IsSet(result.brand_analysis) => result'.brand_analysis = result.brand_analysis
       /\ IsSet(result.audience_suggestion) =>
              result'.audience_suggestion = result.audience_suggestion
       /\ IsSet(result.brand_markdown) => result'.brand_markdown = result.brand_markdown
       /\ IsSet(result.audience_markdown) => result'.audience_markdown = result.audience_markdown
       /\ IsSet(result.offer_markdown) => result'.offer_markdown = result.offer_markdown]_vars

\* a run that failed in the merger and returned what the four steps before it
\* had recorded and produced
C7_Witness ==
    /\ pc = "done"
    /\ raising = "merge"
    /\ result.status = "error"
    /\ [k \in DOMAIN PipelineSteps |-> PipelineSteps[k].name] =
           <<"extract", "brand", "audience", "offer">>
    /\ \A k \in DOMAIN PipelineSteps : PipelineSteps[k].status = "complete"
    /\ result.extracted_content = Some(all_extractions[1])
    /\ result.brand_analysis = Some(AnalyzeBrand(all_extractions[1]))
    /\ result.audience_suggestion = Some(SuggestAudiences(all_extractions[1]))
    /\ IsSet(result.brand_markdown)
    /\ IsSet(result.audience_markdown)
    /\ IsSet(result.offer_markdown)

\* the statuses OrchestrationStep documents
StepStatuses == {"pending", "running", "complete", "error"}

\* C8: every step record has its status among pending, running, complete and
\* error, and every record of status error carries a non-empty causing message.
C8_StepStatusInDomain ==
    \A k \in DOMAIN result.steps :
        /\ result.steps[k].status \in StepStatuses
        /\ result.steps[k].status = "error" =>
              /\ result.steps[k].error # None
              /\ result.steps[k].error[1] # ""

\* C9: the five steps are recorded at most once each, in the order extract,
\* brand, audience, offer, merge, each complete and only after the ones before
\* it; the per-source records precede the extract record; a step's progress
\* notification is emitted before the step is recorded; and "complete" is
\* notified only after the merge step is recorded.
C9_StepsInOrder ==
    /\ Len(PipelineSteps) <= Len(FiveSteps)
    /\ \A k \in DOMAIN PipelineSteps :
          /\ PipelineSteps[k].name = FiveSteps[k]
          /\ PipelineSteps[k].status = "complete"
    /\ \A j, k \in DOMAIN result.steps :
          (result.steps[j].name \in {"extract_url", "extract_pdf"}
              /\ result.steps[k].name = "extract") => j < k
    /\ \A k \in DOMAIN result.steps :
          result.steps[k].name \in Range(FiveSteps) =>
              \E e \in DOMAIN emitted :
                  emitted[e].step = result.steps[k].name /\ emitted[e].at < k
    /\ \A e \in DOMAIN emitted :
          emitted[e].step = "complete" =>
              \E k \in 1..emitted[e].at : result.steps[k].name = "merge"

\* a run with a callback set went through the five steps and notified "complete"
C9_Witness ==
    /\ pc = "done"
    /\ on_progress = "noop"
    /\ result.status = "review"
    /\ [k \in DOMAIN PipelineSteps |-> PipelineSteps[k].name] = FiveSteps
    /\ \E j \in DOMAIN SourceSteps : SourceSteps[j].status = "error"
    /\ \E e \in DOMAIN emitted : emitted[e].step = "complete"

\* the second call of run on the same inputs has returned
SecondRunDone == pc = "done" /\ runNo = 2

\* C10 as stated: run returns the same result whether on_progress is unset, a
\* no-op, or a callback that raises.
C10_CallbackHasNoEffect == SecondRunDone => result = baseline[1]

\* C10: run returns the same status, steps, outputs and error with a callback
\* that returns normally as with none; a callback that raises is not contained:
\* the first notification ends the run in ERROR with the callback's message and
\* the error record as the only step.
C10_OnlyReturningCallbackHasNoEffect ==
    /\ (SecondRunDone /\ on_progress = "noop") => result = baseline[1]
    /\ (SecondRunDone /\ on_progress = "raises") =>
          /\ result.status = "error"
          /\ result.error = Some(CallbackError)
          /\ Len(result.steps) = 1
          /\ result.steps[1].name = "error"
          /\ result.steps[1].error = Some(CallbackError)
          /\ result.extracted_content = None
          /\ calls = <<>>

\* the same sources went to REVIEW without a callback and with a no-op one
C10_Witness ==
    /\ SecondRunDone
    /\ on_progress = "noop"
    /\ urls # <<>>
    /\ baseline[1].status = "review"
    /\ result.status = "review"
    /\ Len(result.steps) >= 6

\* the same sources went to REVIEW without a callback, to ERROR with a raising one
C10_RaisingWitness ==
    /\ SecondRunDone
    /\ on_progress = "raises"
    /\ baseline[1].status = "review"
    /\ result.status = "error"

\* the records the source extractors returned, and the reconciled one once it
\* has been cut
CappedRecords ==
    Range(SourceRecords) \cup (IF pc = "extracted" THEN {Merged} ELSE {})

\* C11: in every record of a source extractor and in the reconciled record,
\* key_benefits has at most 5 items, features at most 10, testimonials at most
\* 3, stats at most 5 and images at most 10.
C11_ListsWithinCaps ==
    \A rec \in CappedRecords :
        /\ Len(rec.value_proposition.key_benefits) <= 5
        /\ Len(rec.product.features) <= 10
        /\ Len(rec.social_proof.testimonials) <= 3
        /\ Len(rec.social_proof.stats) <= 5
        /\ Len(rec.assets.images) <= 10

\* two pages, the first with more items than any cap, thirteen different items
\* in all: the reconciled record has ten features, five benefits, three
\* testimonials, five stats and ten images
C11_Witness ==
    /\ pc = "extracted"
    /\ Len(urls) = 2
    /\ Len(urls[1].items) > SrcImagesCap
    /\ Cardinality(Range(urls[1].items) \cup Range(urls[2].items)) > FeaturesCap
    /\ Len(Merged.product.features) = 10
    /\ Len(Merged.value_proposition.key_benefits) = 5
    /\ Len(Merged.social_proof.testimonials) = 3
    /\ Len(Merged.social_proof.stats) = 5
    /\ Len(Merged.assets.images) = 10

\* C12: in the reconciled record assets.pdfs has at most 5 entries and
\* assets.videos at most 3, as in every per-source record.
C12_AssetsWithinCaps ==
    \A rec \in CappedRecords :
        /\ Len(rec.assets.pdfs) <= 5
        /\ Len(rec.assets.videos) <= 3

\* a list without repeated items
NoRepeats(s) == \A i, j \in DOMAIN s : s[i] = s[j] => i = j

\* C13: once the records are reconciled, none of key_benefits, features,
\* testimonials and stats of the reconciled record holds the same item twice.
C13_ReconciledListsDeduplicated ==
    pc = "extracted" =>
        /\ NoRepeats(Merged.value_proposition.key_benefits)
        /\ NoRepeats(Merged.product.features)
        /\ NoRepeats(Merged.social_proof.testimonials)
        /\ NoRepeats(Merged.social_proof.stats)

(***************************************************************************)
(* extract_from_url and extract_from_text on one page or text.  A page is  *)
(* what its extractors read of it: the <li> items or lines, the hex colour *)
(* codes, the stat matches and the buttons and links, together with what   *)
(* the fetch and the parsers do on it.                                     *)
(***************************************************************************)
\* how many elements of one kind a page holds
MaxElems == 2

\* the pipeline's variables, at rest while one extractor call is looked at
\* the variables of the pipeline
rvars == <<urls, pdf_files, raising, entry, client, on_progress, pc, ui, pi, mi,
           all_extractions, result, exc, emitted, calls, runNo, baseline>>

pvars == <<rvars, svars>>

PipelineIdle ==
    /\ urls = <<>> /\ pdf_files = <<>>
    /\ raising = "none" /\ entry = "run" /\ client = FALSE /\ on_progress = "unset"
    /\ pc = "idle"
    /\ ui = 1 /\ pi = 1 /\ mi = 2
    /\ all_extractions = <<>>
    /\ result = NewResult
    /\ exc = None /\ emitted = <<>> /\ calls = <<>>
    /\ runNo = 1 /\ baseline = None

SeqsOf(S, n) == UNION {[1..k -> S] : k \in 0..n}

\* A line of text or the text of an <li>: whether it starts with a bullet
\* character, the word it starts with after that, whether it holds one of the
\* feature keywords, and the number of characters after the bullet.  Two lines
\* with the same four are the same string.
\*   "get":    get, achieve, save, earn, receive, enjoy
\*   "access": access
\*   "gain":   gain, unlock, discover
\*   "you":    you
Starters == {"get", "access", "gain", "you", "none"}

\* the lengths of 'Save time' and 'Achieve more', and a longer one; every line
\* of the model is shorter than the upper limits (150 and 200 characters)
ItemLens == {9, 12, 20}

\* every long line, and the short bullet lines that start with an outcome verb
Lines ==
    {l \in [bullet : BOOLEAN, starter : Starters, keyword : BOOLEAN, len : ItemLens] :
        l.len = 20 \/ (l.bullet /\ ~l.keyword /\ l.starter = "get")}

\* 10 < len(text): what the item loops accept
MinItemLen == 10
LongEnough(item) == item.len > MinItemLen

\* .{15,150} after the bullet: what the bullet pattern of the benefits matches
BulletMatchLen == 15

\* len(line) of a line as it stands, with its bullet and the blank after it
LineLen(line) == line.len + (IF line.bullet THEN 2 ELSE 0)

\* line.lstrip('•-*✓✔ ').strip()
StripBullet(line) == [line EXCEPT !.bullet = FALSE]

\* re.match(r'^(get|achieve|save|earn|receive|enjoy|access)', text.lower())
HtmlOutcome(text) == ~text.bullet /\ text.starter \in {"get", "access"}

\* re.match(r'^(get|achieve|save|earn|receive|enjoy|you)', item.lower())
TextNotFeature(item) == ~item.bullet /\ item.starter \in {"get", "you"}

\* re.match(outcome_starters, item.lower())
TextOutcome(item) == ~item.bullet /\ item.starter \in {"get", "access", "gain"}

SrcOutcomesCap == 5

\* the matches of the bullet pattern in a text, without their bullets (the
\* captures of the two other patterns are parts of lines and follow them)
BulletItems(lines) ==
    LET bullets == SelectSeq(lines, LAMBDA l : l.bullet /\ l.len >= BulletMatchLen)
    IN [k \in DOMAIN bullets |-> StripBullet(bullets[k])]

\* _extract_value_prop: the <li> texts of reasonable length
BenefitsHtml(lines) == Take(SelectSeq(lines, LongEnough), SrcBenefitsCap)

\* _extract_product_info: every <li> of reasonable length is an outcome or else
\* a feature
ProductInfoHtml(lines) ==
    LET texts == SelectSeq(lines, LongEnough)
    IN [features |-> Take(SelectSeq(texts, LAMBDA t : ~HtmlOutcome(t)), SrcFeaturesCap),
        outcomes |-> Take(SelectSeq(texts, HtmlOutcome), SrcOutcomesCap)]

\* _extract_product_from_text: one loop collects the features, a second loop
\* over the same lines the outcomes
ProductInfoText(lines) ==
    LET found == Flatten([k \in DOMAIN lines |->
                    (IF lines[k].keyword /\ LineLen(lines[k]) > MinItemLen
                     THEN <<lines[k]>> ELSE <<>>)
                    \o (IF /\ lines[k].bullet
                           /\ LongEnough(lines[k])
                           /\ ~TextNotFeature(StripBullet(lines[k]))
                        THEN <<StripBullet(lines[k])>> ELSE <<>>)])
        items == [k \in DOMAIN lines |-> StripBullet(lines[k])]
    IN [features |-> Take(Dedup(found), SrcFeaturesCap),
        outcomes |-> Take(SelectSeq(items, LAMBDA t : TextOutcome(t) /\ LongEnough(t)),
                          SrcOutcomesCap)]

\* A match of the hex pattern: its three channels, whether it is written with
\* three digits, and whether its letters are in lower case.
HexMatch(r, g, b, short, lower) ==
    [r |-> r, g |-> g, b |-> b, short |-> short, lower |-> lower]

\* match.upper()
Upper(m) == [m EXCEPT !.lower = FALSE]

\* f"#{match[0]*2}{match[1]*2}{match[2]*2}"
Expand(m) == [m EXCEPT !.short = FALSE]

WhiteAbove == 240
BlackBelow == 15

TooWhite(c) == c.r > WhiteAbove /\ c.g > WhiteAbove /\ c.b > WhiteAbove
TooBlack(c) == c.r < BlackBelow /\ c.g < BlackBelow /\ c.b < BlackBelow

SrcColorsCap == 6

\* the number a six-digit colour code spells, and the code of a number
ColorNumber(c) == c.r * 65536 + c.g * 256 + c.b
ColorOf(n) == HexMatch(n \div 65536, (n \div 256) % 256, n % 256, FALSE, FALSE)

\* _extract_colors(html): a set of the normalised codes, listed and cut
ColorsHtml(matches, sd) ==
    LET codes == {Expand(Upper(matches[k])) : k \in DOMAIN matches}
        kept == {c \in codes : ~TooWhite(c) /\ ~TooBlack(c)}
        order == SetOrder({ColorNumber(c) : c \in kept}, sd)
    IN Take([k \in DOMAIN order |-> ColorOf(order[k])], SrcColorsCap)

\* _extract_brand_from_text: [f"#{c.upper()}" for c in colors[:6]]
ColorsText(matches) ==
    LET first == Take(matches, SrcColorsCap)
    IN [k \in DOMAIN first |-> Upper(first[k])]

\* _extract_social_proof / _extract_social_proof_from_text: the stats
StatsHtml(matches, sd) == Take(SetOrder(Range(matches), sd), SrcStatsCap)
StatsText(matches) == Take(Dedup(matches), SrcStatsCap)

\* A button or link: which CTA patterns its text matches, and the form of its
\* href ("" if it has none).
CtaLabels == {"primary", "secondary", "none"}
HrefForms == {"", "http", "root", "relative", "fragment", "mailto"}

Anchors == [label : CtaLabels, href : HrefForms]

\* the href as _extract_ctas stores it: urljoin(base_url, href) only if the
\* href starts with '/', and not with http, mailto, tel, # or javascript
StoredHref(form) == [form |-> form, joined |-> form = "root"]

\* index of the first element with that label, 0 if there is none
FirstLabelled(anchors, label) ==
    IF \E k \in DOMAIN anchors : anchors[k].label = label
    THEN CHOOSE k \in DOMAIN anchors :
            /\ anchors[k].label = label
            /\ \A j \in 1..(k - 1) : anchors[j].label # label
    ELSE 0

\* _extract_ctas(soup, base_url)
CtasHtml(anchors) ==
    LET p == FirstLabelled(anchors, "primary")
        q == FirstLabelled(anchors, "secondary")
    IN [primary |-> IF p = 0 THEN "" ELSE "Apply Now",
        secondary |-> IF q = 0 THEN "" ELSE "Learn More",
        urls |-> (IF p # 0 /\ anchors[p].href # ""
                  THEN <<[label |-> "Apply Now", url |-> StoredHref(anchors[p].href)]>>
                  ELSE <<>>)
                 \o (IF q # 0 /\ anchors[q].href # ""
                     THEN <<[label |-> "Learn More", url |-> StoredHref(anchors[q].href)]>>
                     ELSE <<>>)]

\* _extract_ctas_from_text: default labels; the URLs of a text are not modelled
CtasText == [primary |-> "Get Started", secondary |-> "Learn More", urls |-> <<>>]

ParseLimitedHeadline == "Content extraction limited"

\* a page (or text) with a headline and nothing else, that fetches and parses
BasePage(variant) ==
    [variant |-> variant,
     fetch |-> "ok", lxml |-> "ok", html_parser |-> "ok", walk |-> "ok",
     h |-> "X", sh |-> "S",
     lines |-> <<>>, colors |-> <<>>, stats |-> <<>>, anchors |-> <<>>]

Variants == {"url", "text"}

ProductPages ==
    {[BasePage(v) EXCEPT !.lines = l] : v \in Variants, l \in SeqsOf(Lines, MaxElems)}

\* white, black, a blue in four spellings, and colours at the edges of the filter
White == HexMatch(255, 255, 255, FALSE, FALSE)
Black == HexMatch(0, 0, 0, FALSE, FALSE)
Blue == HexMatch(51, 102, 204, FALSE, FALSE)

ColorMatches ==
    {White, Black, Blue,
     [Blue EXCEPT !.lower = TRUE], [Blue EXCEPT !.short = TRUE],
     HexMatch(240, 240, 240, FALSE, FALSE), HexMatch(241, 241, 241, FALSE, FALSE),
     HexMatch(14, 14, 14, FALSE, FALSE), HexMatch(15, 15, 15, FALSE, FALSE)}

\* more colours than the cap keeps
ManyColors == [k \in 1..(SrcColorsCap + 1) |-> HexMatch(16 * k, 100, 100, FALSE, FALSE)]

ColorPages ==
    {[BasePage(v) EXCEPT !.colors = c] :
        v \in Variants,
        c \in SeqsOf(ColorMatches, MaxElems) \cup {<<White, Black, Blue>>, ManyColors}}

StatPages ==
    {[BasePage(v) EXCEPT !.stats = st] :
        v \in Variants,
        st \in SeqsOf(Items, MaxElems) \cup {Interval(1, SrcStatsCap + 2)}}

CtaPages == {[BasePage("url") EXCEPT !.anchors = a] : a \in SeqsOf(Anchors, MaxElems)}

\* what requests.get, the two parsers and the walk over the parsed tree do
FailurePages ==
    {[BasePage("url") EXCEPT !.fetch = f, !.lxml = l, !.html_parser = hp, !.walk = w] :
        f \in {"ok", "request_exception", "other_exception"},
        l \in {"ok", "exception"},
        hp \in {"ok", "recursion_error", "other_exception"},
        w \in {"ok", "recursion_error"}}

\* the pools of pages: each varies one part of a page
Pages == {ProductPages, ColorPages, StatPages, CtaPages, FailurePages}

\* result = ExtractedContent(source=..., source_type=...)
FreshRecord(page) ==
    NewExtractedContent(<<page.variant, 1>>, IF page.variant = "url" THEN "url" ELSE "pdf")

InitExtract ==
    /\ PipelineIdle
    /\ StreamIdle
    /\ seed \in Seeds
    /\ \E pool \in Pages : doc \in pool
    /\ xpc = "start"
    /\ out = FreshRecord(doc)
    /\ raised = None
    /\ prev = None

\* requests.get and raise_for_status
Fetch ==
    /\ xpc = "start"
    /\ doc.variant = "url"
    /\ CASE doc.fetch = "request_exception" ->
               /\ out' = [out EXCEPT !.raw_text = FetchErrorText]
               /\ xpc' = "returned"
               /\ UNCHANGED raised
         [] doc.fetch = "other_exception" ->
               /\ raised' = Some("fetch raised")
               /\ xpc' = "raised"
               /\ UNCHANGED out
         [] doc.fetch = "ok" ->
               /\ xpc' = "parse"
               /\ UNCHANGED <<out, raised>>
    /\ UNCHANGED <<pvars, seed, doc, prev>>

\* BeautifulSoup(html, 'lxml'), falling back to BeautifulSoup(html, 'html.parser')
Parse ==
    /\ xpc = "parse"
    /\ IF doc.lxml = "ok" \/ doc.html_parser = "ok"
       THEN /\ xpc' = "value_prop"
            /\ UNCHANGED <<out, raised>>
       ELSE IF doc.html_parser = "recursion_error"
       THEN /\ out' = [out EXCEPT !.raw_text = "text",
                                  !.value_proposition.headline = ParseLimitedHeadline]
            /\ xpc' = "returned"
            /\ UNCHANGED raised
       ELSE /\ raised' = Some("html.parser raised")
            /\ xpc' = "raised"
            /\ UNCHANGED out
    /\ UNCHANGED <<pvars, seed, doc, prev>>

\* extract_from_text: raw_text = text[:5000]; the lines
BeginText ==
    /\ xpc = "start"
    /\ doc.variant = "text"
    /\ out' = [out EXCEPT !.raw_text = "text"]
    /\ xpc' = "value_prop"
    /\ UNCHANGED <<pvars, seed, doc, raised, prev>>

\* _extract_value_prop / _extract_value_prop_from_text
ExtractValueProp ==
    /\ xpc = "value_prop"
    /\ IF doc.variant = "url" /\ doc.walk = "recursion_error"
       THEN /\ raised' = Some("maximum recursion depth exceeded")
            /\ xpc' = "raised"
            /\ UNCHANGED out
       ELSE /\ out' = [out EXCEPT !.value_proposition =
                  [headline |-> doc.h, subheadline |-> doc.sh,
                   key_benefits |->
                       IF doc.variant = "url" THEN BenefitsHtml(doc.lines)
                       ELSE Take(Dedup(BulletItems(doc.lines)), SrcBenefitsCap)]]
            /\ xpc' = "product"
            /\ UNCHANGED raised
    /\ UNCHANGED <<pvars, seed, doc, prev>>

\* _extract_product_info / _extract_product_from_text
ExtractProduct ==
    /\ xpc = "product"
    /\ LET info == IF doc.variant = "url" THEN ProductInfoHtml(doc.lines)
                   ELSE ProductInfoText(doc.lines)
       IN out' = [out EXCEPT !.product.features = info.features,
                             !.product.outcomes = info.outcomes]
    /\ xpc' = "social_proof"
    /\ UNCHANGED <<pvars, seed, doc, raised, prev>>

\* _extract_social_proof / _extract_social_proof_from_text
ExtractSocialProof ==
    /\ xpc = "social_proof"
    /\ out' = [out EXCEPT !.social_proof.stats =
                  IF doc.variant = "url" THEN StatsHtml(doc.stats, seed)
                  ELSE StatsText(doc.stats)]
    /\ xpc' = "ctas"
    /\ UNCHANGED <<pvars, seed, doc, raised, prev>>

\* _extract_ctas / _extract_ctas_from_text
ExtractCtas ==
    /\ xpc = "ctas"
    /\ out' = [out EXCEPT !.ctas =
                  IF doc.variant = "url" THEN CtasHtml(doc.anchors) ELSE CtasText]
    /\ xpc' = "brand"
    /\ UNCHANGED <<pvars, seed, doc, raised, prev>>

\* _extract_brand / _extract_brand_from_text
ExtractBrand ==
    /\ xpc = "brand"
    /\ out' = [out EXCEPT
                  !.brand.colors = IF doc.variant = "url" THEN ColorsHtml(doc.colors, seed)
                                   ELSE ColorsText(doc.colors),
                  !.brand.tone_keywords = DefaultTone,
                  !.brand.industry = DefaultIndustry]
    /\ xpc' = "assets"
    /\ UNCHANGED <<pvars, seed, doc, raised, prev>>

\* _extract_assets / _extract_assets_from_text (the pages of this
\* specification link no assets), the raw text of a page, and `return result`
ExtractAssets ==
    /\ xpc = "assets"
    /\ out' = IF doc.variant = "url" THEN [out EXCEPT !.raw_text = "text"] ELSE out
    /\ xpc' = "returned"
    /\ UNCHANGED <<pvars, seed, doc, raised, prev>>

\* the same page or text is extracted once more, by this process or by another
ExtractAgain ==
    /\ xpc = "returned"
    /\ "variant" \in DOMAIN doc
    /\ prev = None
    /\ prev' = Some(out)
    /\ seed' \in Seeds
    /\ out' = FreshRecord(doc)
    /\ xpc' = "start"
    /\ UNCHANGED <<pvars, doc, raised>>

NextExtract ==
    \/ Fetch
    \/ Parse
    \/ BeginText
    \/ ExtractValueProp
    \/ ExtractProduct
    \/ ExtractSocialProof
    \/ ExtractCtas
    \/ ExtractBrand
    \/ ExtractAssets
    \/ ExtractAgain

SpecExtract == InitExtract /\ [][NextExtract]_vars

\* the extractor call has returned a record
Returned == xpc = "returned"

\* C14: no string is an element of both product.features and product.outcomes
\* of a record returned by extract_from_url or extract_from_text.
C14_FeaturesOutcomesDisjoint ==
    Returned => Range(out.product.features) \cap Range(out.product.outcomes) = {}

\* the six field groups of a record are at their defaults
FieldGroupsEmpty(rec) ==
    LET fresh == NewExtractedContent(rec.source, rec.source_type)
    IN /\ rec.value_proposition = fresh.value_proposition
       /\ rec.product = fresh.product
       /\ rec.social_proof = fresh.social_proof
       /\ rec.ctas = fresh.ctas
       /\ rec.brand = fresh.brand
       /\ rec.assets = fresh.assets

\* neither parser could build the tree
ParseFailed == doc.fetch = "ok" /\ doc.lxml # "ok" /\ doc.html_parser # "ok"

\* C15: extract_from_url never raises to its caller: after a fetch failure it
\* returns a record whose raw_text states the error and whose field groups are
\* empty, and when the page cannot be parsed it returns the record with the
\* marker headline.
C15_ExtractFromUrlNeverRaises ==
    doc.variant = "url" =>
        /\ xpc # "raised"
        /\ raised = None
        /\ (Returned /\ doc.fetch # "ok") =>
              /\ out.raw_text = FetchErrorText
              /\ FieldGroupsEmpty(out)
        /\ (Returned /\ ParseFailed) =>
              out.value_proposition.headline = ParseLimitedHeadline

\* C16: every record returned by extract_from_url or extract_from_text has a
\* non-empty brand.tone_keywords and a non-empty brand.industry, degraded
\* records included.
C16_BrandDefaultsAlwaysSet ==
    Returned =>
        /\ out.brand.tone_keywords # <<>>
        /\ out.brand.industry # ""

\* C17: in a record of either extractor, every entry of brand.colors is '#' and
\* six upper-case hex digits, no entry occurs twice, there are at most 6
\* entries, and none is near white or near black; #FFFFFF, #000000 and #3366CC
\* give #3366CC only.
C17_ColorsWellFormed ==
    Returned =>
        /\ \A k \in DOMAIN out.brand.colors :
              /\ ~out.brand.colors[k].short
              /\ ~out.brand.colors[k].lower
              /\ ~TooWhite(out.brand.colors[k])
              /\ ~TooBlack(out.brand.colors[k])
        /\ NoRepeats(out.brand.colors)
        /\ Len(out.brand.colors) <= 6
        /\ (doc.fetch = "ok" /\ doc.colors = <<White, Black, Blue>>) =>
              out.brand.colors = <<Blue>>

\* the second extraction of the same page or text has returned
SecondExtraction == Returned /\ prev # None

\* C18: two extractions of the same page or text, in the same or in different
\* processes, return identical records.
C18_ExtractionDeterministic == SecondExtraction => out = prev[1]

\* a stored URL is absolute: it has a scheme, or was joined with the base URL
IsAbsolute(url) == url.form \in {"http", "mailto"} \/ url.joined

\* C19: every value the HTML CTA extractor stores in ctas.urls is an absolute
\* URL, relative hrefs having been resolved against the base URL.
C19_CtaUrlsAbsolute ==
    (Returned /\ doc.variant = "url") =>
        \A k \in DOMAIN out.ctas.urls : IsAbsolute(out.ctas.urls[k].url)

\* ---------------------------------------------------------------------------
\* analyze_brand and the overrides of Orchestrator.run
\* ---------------------------------------------------------------------------

\* BrandAnalysis(): the fields the analysis derives or the preferences set
NewBrandAnalysis ==
    [company_name |-> "", industry |-> "", tone |-> <<>>,
     formality_level |-> "professional",
     primary_color |-> "#1e3a5f", accent_color |-> "#e67e22",
     background_color |-> "#f5f7fa",
     key_phrases |-> <<>>, emoji_recommendation |-> "minimal",
     value_statement |-> ""]

\* A value of the preferences that may be a list or a single string
ListValue(items) == [type |-> "list", v |-> items]
StrValue(text) == [type |-> "str", v |-> <<text>>]

\* bool(value) of a list-or-string value
Truthy(value) == IF value.type = "list" THEN value.v # <<>> ELSE value.v[1] # ""

\* preferences['tone'] if isinstance(preferences['tone'], list) else [preferences['tone']]
AsList(value) == value.v

casual_indicators == {"friendly", "fun", "casual", "playful"}
formal_indicators == {"premium", "luxury", "established", "traditional"}
formal_industries == {"financial services", "healthcare", "legal"}

\* the mapping of the tone to a formality level
FormalityOf(tone) ==
    IF Range(tone) \cap casual_indicators # {} THEN "casual"
    ELSE IF Range(tone) \cap formal_indicators # {} THEN "formal"
    ELSE "professional"

\* _recommend_emoji_usage(formality, industry)
RecommendEmojiUsage(formality, industry) ==
    IF industry \in formal_industries \/ formality = "formal" THEN "none"
    ELSE IF formality = "casual" THEN "moderate"
    ELSE "minimal"

\* benefits[:3]
KeyPhraseBenefits == 3

\* product['description'][:200]; the descriptions of the model are short
Description200(text) == text

\* analyze_brand up to the preferences: the analysis derived from the content
DeriveBrand(content) ==
    LET tone == IF content.brand.tone_keywords # <<>> THEN content.brand.tone_keywords
                ELSE <<"professional">>
        formality == FormalityOf(tone)
        colors == content.brand.colors
        headline == content.value_proposition.headline
        fresh == NewBrandAnalysis
    IN [fresh EXCEPT
          !.company_name = content.brand.name,
          !.industry = content.brand.industry,
          !.tone = tone,
          !.formality_level = formality,
          !.primary_color = IF Len(colors) > 0 THEN colors[1] ELSE @,
          !.accent_color = IF Len(colors) > 1 THEN colors[2] ELSE @,
          !.background_color = IF Len(colors) > 2 THEN colors[3] ELSE @,
          !.key_phrases = (IF headline # "" THEN <<headline>> ELSE <<>>)
                          \o Take(content.value_proposition.key_benefits,
                                  KeyPhraseBenefits),
          !.emoji_recommendation = RecommendEmojiUsage(formality, content.brand.industry),
          !.value_statement = IF headline # "" THEN headline
                              ELSE IF content.product.description # ""
                              THEN Description200(content.product.description)
                              ELSE @]

\* a dict of preferences: each key is absent (None) or holds a value
NoPreferences ==
    [company_name |-> None, tone |-> None, primary_color |-> None,
     accent_color |-> None, use_emojis |-> None, brand_phrases |-> None]

\* preferences.get(key) is truthy, for a key holding a string or a list
Given(pref, empty) == pref # None /\ pref[1] # empty

\* a variant in which a preference only fills a field the content left empty
ApplyUserPreferencesFillGaps(analysis, preferences) ==
    [analysis EXCEPT
       !.company_name = IF Given(preferences.company_name, "") /\ @ = ""
                        THEN preferences.company_name[1] ELSE @,
       !.tone = IF preferences.tone # None /\ Truthy(preferences.tone[1]) /\ @ = <<>>
                THEN AsList(preferences.tone[1]) ELSE @,
       !.primary_color = IF Given(preferences.primary_color, "") /\ @ = ""
                         THEN preferences.primary_color[1] ELSE @,
       !.accent_color = IF Given(preferences.accent_color, "") /\ @ = ""
                        THEN preferences.accent_color[1] ELSE @,
       !.emoji_recommendation = IF @ # "" THEN @
                                ELSE IF preferences.use_emojis = Some(FALSE) THEN "none"
                                ELSE IF preferences.use_emojis = Some(TRUE) THEN "moderate"
                                ELSE @,
       !.key_phrases = IF Given(preferences.brand_phrases, <<>>) /\ @ = <<>>
                       THEN preferences.brand_phrases[1] ELSE @]

\* _apply_user_preferences(analysis, preferences)
ApplyUserPreferences(analysis, preferences) ==
    [analysis EXCEPT
       !.company_name = IF Given(preferences.company_name, "")
                        THEN preferences.company_name[1] ELSE @,
       !.tone = IF preferences.tone # None /\ Truthy(preferences.tone[1])
                THEN AsList(preferences.tone[1]) ELSE @,
       !.primary_color = IF Given(preferences.primary_color, "")
                         THEN preferences.primary_color[1] ELSE @,
       !.accent_color = IF Given(preferences.accent_color, "")
                        THEN preferences.accent_color[1] ELSE @,
       !.emoji_recommendation = IF preferences.use_emojis = Some(FALSE) THEN "none"
                                ELSE IF preferences.use_emojis = Some(TRUE) THEN "moderate"
                                ELSE @,
       !.key_phrases = IF Given(preferences.brand_phrases, <<>>)
                       THEN preferences.brand_phrases[1] ELSE @]

\* the overrides Orchestrator.run applies to the analysis it got back
ApplyRunOverrides(brand, user_inputs) ==
    [brand EXCEPT
       !.company_name = IF Given(user_inputs.company_name, "")
                        THEN user_inputs.company_name[1] ELSE @,
       !.primary_color = IF Given(user_inputs.primary_color, "")
                         THEN user_inputs.primary_color[1] ELSE @,
       !.accent_color = IF Given(user_inputs.accent_color, "")
                        THEN user_inputs.accent_color[1] ELSE @]

\* the content the analysis reads
BrandContent(name, industry, tone, colors, headline, benefits, description) ==
    [NewExtractedContent(<<"url", 1>>, "url") EXCEPT
       !.brand.name = name, !.brand.industry = industry,
       !.brand.tone_keywords = tone, !.brand.colors = colors,
       !.value_proposition.headline = headline,
       !.value_proposition.key_benefits = benefits,
       !.product.description = description]

BrandContents ==
    {BrandContent(n, i, t, c, h, b, d) :
        n \in {"", "Acme"},
        i \in {"", "general business", "financial services", "e-commerce"},
        t \in {<<>>, <<"friendly">>, <<"premium">>, <<"innovative">>},
        c \in {<<>>, <<"#112233">>, <<"#112233", "#445566", "#778899">>},
        h \in {"", "X"},
        b \in {<<>>, [k \in 1..(KeyPhraseBenefits + 1) |-> k]},
        d \in {"", "D"}}

\* a few contents for the runs that vary the preferences
PlainContents ==
    {BrandContent("Acme", i, <<"friendly">>, c, "X", <<1>>, "") :
        i \in {"financial services", "e-commerce"},
        c \in {<<>>, <<"#112233", "#445566">>}}

BrandPreferences ==
    [company_name : {None, Some(""), Some("Override Company")},
     tone : {None, Some(ListValue(<<>>)), Some(ListValue(<<"bold", "direct">>)),
             Some(StrValue("playful"))},
     primary_color : {None, Some("#ff0000")},
     accent_color : {None, Some(""), Some("#00ff00")},
     use_emojis : {None, Some(TRUE), Some(FALSE)},
     brand_phrases : {None, Some(<<>>), Some(<<"Be bold">>)}]

PlainPreferences ==
    {NoPreferences,
     [NoPreferences EXCEPT !.company_name = Some("Override Company"),
                           !.primary_color = Some("#ff0000")],
     [NoPreferences EXCEPT !.use_emojis = Some(TRUE)]}

\* the top-level keys of user_inputs that Orchestrator.run reads for the brand
RunInputs ==
    [company_name : {None, Some(""), Some("Top Level Co")},
     primary_color : {None, Some("#0000ff")},
     accent_color : {None, Some("#00ffff")}]

\* analyze_brand called by itself, or through Orchestrator.run
BrandCallers == {"analyze_brand", "run"}

BrandCases ==
    [content : BrandContents, preferences : PlainPreferences,
     user_inputs : {[company_name |-> None, primary_color |-> None,
                     accent_color |-> None]},
     caller : BrandCallers]
    \cup [content : PlainContents, preferences : BrandPreferences,
          user_inputs : RunInputs, caller : {"run"}]
    \cup [content : PlainContents, preferences : BrandPreferences,
          user_inputs : {[company_name |-> None, primary_color |-> None,
                          accent_color |-> None]},
          caller : {"analyze_brand"}]

InitBrand ==
    /\ PipelineIdle
    /\ StreamIdle
    /\ seed = 1
    /\ doc \in BrandCases
    /\ xpc = "start"
    /\ out = NewBrandAnalysis
    /\ raised = None
    /\ prev = None

\* analyze_brand: everything it derives from the content
Derive ==
    /\ xpc = "start"
    /\ "caller" \in DOMAIN doc
    /\ out' = DeriveBrand(doc.content)
    /\ xpc' = "derived"
    /\ UNCHANGED <<pvars, seed, doc, raised, prev>>

\* analyze_brand: if user_preferences: analysis = _apply_user_preferences(...);
\* return analysis
ApplyPreferences ==
    /\ xpc = "derived"
    /\ out' = IF doc.preferences # NoPreferences
              THEN ApplyUserPreferences(out, doc.preferences)
              ELSE out
    /\ xpc' = "analyzed"
    /\ UNCHANGED <<pvars, seed, doc, raised, prev>>

\* Orchestrator.run: the top-level overrides, applied to what analyze_brand
\* returned
ApplyOverrides ==
    /\ xpc = "analyzed"
    /\ doc.caller = "run"
    /\ prev' = Some(out)
    /\ out' = ApplyRunOverrides(out, doc.user_inputs)
    /\ xpc' = "overridden"
    /\ UNCHANGED <<pvars, seed, doc, raised>>

NextBrand ==
    \/ Derive
    \/ ApplyPreferences
    \/ ApplyOverrides

SpecBrand == InitBrand /\ [][NextBrand]_vars

\* analyze_brand has returned; a run has applied its overrides
Analyzed == xpc = "analyzed"
Overridden == xpc = "overridden"

\* the preference's value, or else the value the field had before
Overlaid(pref, empty, before) == IF Given(pref, empty) THEN pref[1] ELSE before

\* what the two emoji preferences force
ForcedEmoji(use_emojis, before) ==
    IF use_emojis = Some(TRUE) THEN "moderate"
    ELSE IF use_emojis = Some(FALSE) THEN "none"
    ELSE before

\* C20: the preferences are applied after everything is derived and win: a
\* non-empty company_name, tone, primary_color, accent_color or brand_phrases of
\* the preferences is the returned field (a tone given as one string being
\* returned as the list of that string), use_emojis true/false gives moderate/
\* none whatever the industry, and every other field keeps its derived value;
\* in Orchestrator.run a non-empty top-level company_name, primary_color or
\* accent_color then replaces whatever analyze_brand returned.
C20_OverlayWins ==
    LET derived == DeriveBrand(doc.content)
        p == doc.preferences
    IN /\ Analyzed =>
            out = [derived EXCEPT
                     !.company_name = Overlaid(p.company_name, "", @),
                     !.tone = IF p.tone # None /\ Truthy(p.tone[1])
                              THEN p.tone[1].v ELSE @,
                     !.primary_color = Overlaid(p.primary_color, "", @),
                     !.accent_color = Overlaid(p.accent_color, "", @),
                     !.key_phrases = Overlaid(p.brand_phrases, <<>>, @),
                     !.emoji_recommendation = ForcedEmoji(p.use_emojis, @)]
       /\ Overridden =>
            out = [prev[1] EXCEPT
                     !.company_name = Overlaid(doc.user_inputs.company_name, "", @),
                     !.primary_color = Overlaid(doc.user_inputs.primary_color, "", @),
                     !.accent_color = Overlaid(doc.user_inputs.accent_color, "", @)]

\* a formal industry and a derived name, with preferences that name the company,
\* give the tone as one string and allow emojis; then a run whose top-level
\* company_name replaces the name again
C20_Witness ==
    /\ Overridden
    /\ doc.content.brand.name = "Acme"
    /\ doc.content.brand.industry = "financial services"
    /\ DeriveBrand(doc.content).emoji_recommendation = "none"
    /\ doc.preferences.company_name = Some("Override Company")
    /\ doc.preferences.tone = Some(StrValue("playful"))
    /\ doc.preferences.use_emojis = Some(TRUE)
    /\ doc.preferences.primary_color = Some("#ff0000")
    /\ doc.preferences.brand_phrases = None
    /\ doc.user_inputs.company_name = Some("Top Level Co")
    /\ doc.user_inputs.primary_color = None
    /\ prev[1].company_name = "Override Company"
    /\ out.company_name = "Top Level Co"
    /\ out.primary_color = "#ff0000"
    /\ out.tone = <<"playful">>
    /\ out.emoji_recommendation = "moderate"
    /\ out.key_phrases = DeriveBrand(doc.content).key_phrases

\* C20 as stated: every key present in the preferences, whatever its value, is
\* the returned field, the tone included; every top-level key present in
\* user_inputs is the field after the run's overrides.
C20_EverySuppliedValueWins ==
    LET p == doc.preferences
        u == doc.user_inputs
    IN /\ Analyzed =>
            /\ p.company_name # None => out.company_name = p.company_name[1]
            /\ p.tone # None => ListValue(out.tone) = p.tone[1]
            /\ p.primary_color # None => out.primary_color = p.primary_color[1]
            /\ p.accent_color # None => out.accent_color = p.accent_color[1]
            /\ p.brand_phrases # None => out.key_phrases = p.brand_phrases[1]
            /\ p.use_emojis # None =>
                  out.emoji_recommendation = ForcedEmoji(p.use_emojis, "")
       /\ Overridden =>
            /\ u.company_name # None => out.company_name = u.company_name[1]
            /\ u.primary_color # None => out.primary_color = u.primary_color[1]
            /\ u.accent_color # None => out.accent_color = u.accent_color[1]

\* no industry was detected in the content and no preferences were given
NoIndustryDetected ==
    /\ doc.content.brand.industry = DefaultIndustry
    /\ doc.preferences = NoPreferences

\* C21: for a content in which no industry was detected, and without
\* preferences, analyze_brand returns the industry "general business" and the
\* emoji recommendation "minimal", whatever the tone keywords of the content.
C21_NoIndustryGivesMinimalEmoji ==
    (Analyzed /\ NoIndustryDetected) =>
        /\ out.industry = "general business"
        /\ out.emoji_recommendation = "minimal"

\* ---------------------------------------------------------------------------
\* suggest_audiences
\* ---------------------------------------------------------------------------

\* AudienceSegment(...): the fields the suggestion rules read or set
Segment(name, type, age_range, company_size, goals) ==
    [name |-> name, type |-> type, age_range |-> age_range,
     company_size |-> company_size, goals |-> goals]

\* the age ranges of the model, and "18-" in age_range or "25-" in age_range
AgeRanges == {"", "18-24", "25-35", "25-55", "30-45", "35-55", "55+"}
HasYoungBracket(age_range) == age_range \in {"18-24", "25-35", "25-55"}

CompanySizes == {"", "1-10 employees", "11-50 employees", "200+ employees"}

JourneyTypes == {"B2C", "B2B"}

\* the industries with an entry in industry_segments, and two without
Industries == {"financial services", "saas", "e-commerce", "grant management",
               "healthcare", "general business"}

\* industry_segments.get(industry, {}).get(journey_type, [])
IndustrySegments(industry, journey_type) ==
    CASE industry = "financial services" /\ journey_type = "B2C" ->
            <<Segment("First-Time Savers", "B2C", "25-35", "", <<"Build savings habit">>),
              Segment("Active Savers", "B2C", "30-50", "", <<"Better returns">>)>>
      [] industry = "financial services" /\ journey_type = "B2B" ->
            <<Segment("HR & Benefits Managers", "B2B", "", "50-500 employees",
                      <<"Improve benefits package">>)>>
      [] industry = "saas" /\ journey_type = "B2B" ->
            <<Segment("SMB Decision Makers", "B2B", "", "1-50 employees", <<"Automate tasks">>),
              Segment("Enterprise Champions", "B2B", "", "200+ employees",
                      <<"Prove value to leadership">>)>>
      [] industry = "saas" /\ journey_type = "B2C" ->
            <<Segment("Productivity Seekers", "B2C", "25-45", "", <<"Get organized">>)>>
      [] industry = "e-commerce" /\ journey_type = "B2C" ->
            <<Segment("Value Seekers", "B2C", "25-45", "", <<"Save money">>),
              Segment("Convenience Buyers", "B2C", "30-55", "", <<"Quick purchase">>)>>
      [] industry = "grant management" /\ journey_type = "B2B" ->
            <<Segment("Grant-Making Organizations", "B2B", "", "10-500 employees",
                      <<"Streamline grant management">>),
              Segment("Community Organizations", "B2B", "", "1-50 employees",
                      <<"Win more grants">>)>>
      [] industry = "grant management" /\ journey_type = "B2C" ->
            <<Segment("Productivity Seekers", "B2C", "25-45", "", <<"Get organized">>)>>
      [] OTHER -> <<>>

MaxSegments == 3
GoalBenefits == 3
MaxPaths == 3

\* _suggest_segments_for_industry(industry, journey_type, product_name, benefits)
SuggestSegmentsForIndustry(industry, journey_type, benefits) ==
    LET suggested == IndustrySegments(industry, journey_type)
        segments ==
            IF suggested # <<>> THEN suggested
            ELSE IF journey_type = "B2C"
            THEN <<Segment("Primary Audience", "B2C", "25-55", "",
                           IF benefits # <<>> THEN Take(benefits, GoalBenefits)
                           ELSE <<"Solve their problem">>)>>
            ELSE <<Segment("Business Decision Makers", "B2B", "", "10-500 employees",
                           <<"Improve operations", "Reduce costs">>)>>
    IN Take(segments, MaxSegments)

\* _create_segment_from_user_input(user_input, journey_type)
CreateSegmentFromUserInput(user_input, journey_type) ==
    Segment(IF user_input.name = None THEN "Primary Audience" ELSE user_input.name[1],
            journey_type,
            user_input.age_range,
            IF journey_type = "B2B" THEN user_input.company_size ELSE "",
            user_input.goals)

\* _suggest_secondary_segment(industry, journey_type, primary)
SuggestSecondarySegment(industry, journey_type, primary) ==
    IF journey_type = "B2C"
    THEN IF HasYoungBracket(primary.age_range)
         THEN Segment("Established Professionals", "B2C", "35-55", "",
                      <<"Efficiency", "Reliability">>)
         ELSE Segment("Young Professionals", "B2C", "25-35", "",
                      <<"Getting started", "Learning">>)
    ELSE Segment("Growing Companies", "B2B", "", "11-50 employees",
                 <<"Efficiency", "Growth enablement">>)

\* _generate_segmentation_question(segments, product_name)
GenerateSegmentationQuestion(segments) ==
    IF Len(segments) < 2 THEN "What's most important to you?"
    ELSE IF segments[1].type = "B2C"
    THEN IF Cardinality({Take(segments[k].goals, 1) :
                            k \in {j \in DOMAIN segments : segments[j].goals # <<>>}}) > 1
         THEN "What's your main goal right now?"
         ELSE "How familiar are you with this type of product?"
    ELSE "What's your company's biggest challenge right now?"

\* a suggestion that keeps the number of paths the dataclass starts with
RecommendedPathsDefault(segments) == 2

\* min(len(suggestion.segments), 3)
RecommendedPaths(segments) == Min(Len(segments), MaxPaths)

\* AudienceSuggestion(journey_type=journey_type)
NewAudienceSuggestion(journey_type) ==
    [journey_type |-> journey_type, segments |-> <<>>, recommended_paths |-> 2,
     segmentation_question |-> ""]

\* the audience data a user gives: a dict whose keys may be missing
UserAudiences ==
    [name : {None, Some("SMB owners")},
     age_range : AgeRanges,
     company_size : CompanySizes,
     goals : {<<>>, <<"Efficiency">>}]

\* the calls looked at: user_provided is None (or an empty dict) or a dict
AudienceCases ==
    [industry : Industries, journey_type : JourneyTypes,
     benefits : {<<>>, <<"b1", "b2", "b3", "b4">>},
     user_provided : {None} \cup {Some(u) : u \in UserAudiences}]

InitAudience ==
    /\ PipelineIdle
    /\ StreamIdle
    /\ seed = 1
    /\ doc \in AudienceCases
    /\ xpc = "start"
    /\ out = NewAudienceSuggestion(doc.journey_type)
    /\ raised = None
    /\ prev = None

\* if user_provided: the primary segment is built from it and appended
CreatePrimary ==
    /\ xpc = "start"
    /\ "user_provided" \in DOMAIN doc
    /\ doc.user_provided # None
    /\ out' = [out EXCEPT !.segments =
                  Append(@, CreateSegmentFromUserInput(doc.user_provided[1], doc.journey_type))]
    /\ xpc' = "primary"
    /\ UNCHANGED <<pvars, seed, doc, raised, prev>>

\* the secondary segment is suggested and appended
SuggestSecondary ==
    /\ xpc = "primary"
    /\ out' = [out EXCEPT !.segments =
                  Append(@, SuggestSecondarySegment(doc.industry, doc.journey_type,
                                                    out.segments[1]))]
    /\ xpc' = "segments"
    /\ UNCHANGED <<pvars, seed, doc, raised, prev>>

\* else: the segments suggested for the industry
SuggestForIndustry ==
    /\ xpc = "start"
    /\ "user_provided" \in DOMAIN doc
    /\ doc.user_provided = None
    /\ out' = [out EXCEPT !.segments =
                  @ \o SuggestSegmentsForIndustry(doc.industry, doc.journey_type,
                                                  doc.benefits)]
    /\ xpc' = "segments"
    /\ UNCHANGED <<pvars, seed, doc, raised, prev>>

\* the segmentation question, recommended_paths, and `return suggestion`
FinishSuggestion ==
    /\ xpc = "segments"
    /\ out' = [out EXCEPT !.segmentation_question = GenerateSegmentationQuestion(out.segments),
                          !.recommended_paths = RecommendedPaths(out.segments)]
    /\ xpc' = "suggested"
    /\ UNCHANGED <<pvars, seed, doc, raised, prev>>

NextAudience ==
    \/ CreatePrimary
    \/ SuggestSecondary
    \/ SuggestForIndustry
    \/ FinishSuggestion

SpecAudience == InitAudience /\ [][NextAudience]_vars

\* suggest_audiences has returned
Suggested == xpc = "suggested"

\* C22: for every industry and journey type, with or without audience data of
\* the user, the suggestion returned by suggest_audiences has between 1 and 3
\* segments, and recommended_paths is the smaller of their number and 3.
C22_SegmentsAndPathsBounded ==
    Suggested =>
        /\ Len(out.segments) \in 1..3
        /\ out.recommended_paths = Min(Len(out.segments), 3)

\* an industry without an entry and no audience data: the one default segment
\* and one path
C22_Witness ==
    /\ Suggested
    /\ doc.industry = "healthcare"
    /\ doc.user_provided = None
    /\ Len(out.segments) = 1
    /\ out.segments[1].name = "Primary Audience"
    /\ out.recommended_paths = 1

\* C23: with audience data of the user, suggest_audiences returns exactly two
\* segments, the first built from the data and the second synthesized; for B2C
\* the second's age_range differs from the first's, and for B2B the second is
\* "Growing Companies" and its company_size differs from the first's, for every
\* value the user supplies.
C23_SecondaryContrastsPrimary ==
    (Suggested /\ doc.user_provided # None) =>
        /\ Len(out.segments) = 2
        /\ out.segments[1] = CreateSegmentFromUserInput(doc.user_provided[1], doc.journey_type)
        /\ doc.journey_type = "B2C" =>
              out.segments[2].age_range # out.segments[1].age_range
        /\ doc.journey_type = "B2B" =>
              /\ out.segments[2].name = "Growing Companies"
              /\ out.segments[2].company_size # out.segments[1].company_size

\* the bullet lines of the text whose item starts with an outcome verb, as items
BulletOutcomes ==
    LET hits == SelectSeq(doc.lines, LAMBDA l : l.bullet /\ TextOutcome(StripBullet(l)))
    IN [k \in DOMAIN hits |-> StripBullet(hits[k])]

\* C24: for a text, every bullet line whose item starts with an outcome verb is
\* in value_proposition.key_benefits (the first 5 of them) and in
\* product.outcomes and not in product.features, the 9-character 'Save time'
\* and the 12-character 'Achieve more' included.
C24_BulletOutcomesClassified ==
    (Returned /\ doc.variant = "text") =>
        /\ Range(Take(BulletOutcomes, SrcBenefitsCap))
              \subseteq Range(out.value_proposition.key_benefits)
        /\ \A item \in Range(BulletOutcomes) :
              /\ item \in Range(out.product.outcomes)
                    \/ Len(out.product.outcomes) = SrcOutcomesCap
              /\ item \notin Range(out.product.features)

\* C25: the source_type of every record is "url" or "text": extract_from_url
\* sets "url" and extract_from_text sets "text", whatever the input.
C25_SourceTypeUrlOrText ==
    Returned =>
        /\ out.source_type \in {"url", "text"}
        /\ doc.variant = "url" => out.source_type = "url"
        /\ doc.variant = "text" => out.source_type = "text"


(***************************************************************************)
(* Orchestrator.run under a scheduler that keeps taking steps while one is *)
(* enabled: run is straight-line code and loops over finite lists.         *)
(***************************************************************************)
\* neither the status nor the number of steps of run depends on what a page
\* holds: one page with content, one transport failure, one raising extractor
RunUrls == {Source("ok", "X", "", <<1>>)} \cup (UrlSources \ PipeContents)
RunPdfs == {Source("ok", "Y", "S", <<2>>)} \cup (PdfSources \ PipeContents)

InitRun ==
    /\ ExtractorIdle
    /\ \E n \in 0..MaxSources : \E nu \in 0..n :
          /\ urls \in [1..nu -> RunUrls]
          /\ pdf_files \in [1..(n - nu) -> RunPdfs]
    /\ seed \in SeedsFor(urls)
    /\ raising \in Collaborators \cup {"none"}
    /\ \E e \in {<<"run", FALSE>>, <<"run_with_llm_reasoning", FALSE>>,
                 <<"run_with_llm_reasoning", TRUE>>} :
           entry = e[1] /\ client = e[2]
    /\ on_progress \in {"unset", "noop"}
    /\ pc = "start"
    /\ ui = 1 /\ pi = 1 /\ mi = 2
    /\ all_extractions = <<>>
    /\ result = NewResult
    /\ exc = None
    /\ emitted = <<>>
    /\ calls = <<>>
    /\ runNo = 1
    /\ baseline = None

SpecFair == InitRun /\ [][Next]_vars /\ WF_vars(Next)

\* OrchestrationStatus in the order run assigns it
StatusRank(status) ==
    CASE status = "pending" -> 0
      [] status = "extracting" -> 1
      [] status = "analyzing" -> 2
      [] status = "generating" -> 3
      [] status = "review" -> 4
      [] status = "complete" -> 5
      [] status = "error" -> 6

\* run has returned its result (enhancement, if any, has not started)
RunReturned == pc = "returned"

\* the status stays, moves to the next one of the order, or becomes ERROR
\* from a status that is not final
StatusStep ==
    \/ pc' = "start"
    \/ result'.status = result.status
    \/ /\ result.status \in {"pending", "extracting", "analyzing", "generating"}
       /\ \/ result'.status = "error"
          \/ /\ result'.status # "complete"
             /\ StatusRank(result'.status) = StatusRank(result.status) + 1

\* what run returns: REVIEW or ERROR, REVIEW exactly when no error is set,
\* the five steps are recorded complete and the combined brief is set
ReturnedStatus ==
    RunReturned =>
        /\ result.status \in {"review", "error"}
        /\ result.status = "review" <=>
              /\ result.error = None
              /\ \A k \in DOMAIN FiveSteps :
                    \E j \in DOMAIN CompleteSteps : CompleteSteps[j] = FiveSteps[k]
              /\ IsSet(result.combined_brief)

\* C26: Orchestrator.run always terminates; while it runs the status only
\* moves forward along PENDING, EXTRACTING, ANALYZING, GENERATING, REVIEW,
\* with ERROR reachable from any status that is not final and absorbing; the
\* returned status is REVIEW or ERROR, and REVIEW exactly when error is unset,
\* the steps extract, brand, audience, offer and merge are recorded complete
\* and combined_brief is set.
C26_RunTerminatesInReviewOrError ==
    /\ <>RunReturned
    /\ [][StatusStep]_vars
    /\ []ReturnedStatus

\* a run returned REVIEW after the status went through every stage
C26_Witness ==
    /\ RunReturned
    /\ result.status = "review"
    /\ result.error = None
    /\ Len(result.steps) >= Len(FiveSteps)
    /\ IsSet(result.combined_brief)


\* a record without the eight fields the merge loop and the truncation assign
OutsideMerge(rec) ==
    [rec EXCEPT
        !.value_proposition.headline = "",
        !.value_proposition.subheadline = "",
        !.value_proposition.key_benefits = <<>>,
        !.product.features = <<>>,
        !.social_proof.testimonials = <<>>,
        !.social_proof.stats = <<>>,
        !.assets.pdfs = <<>>,
        !.assets.videos = <<>>]

\* C27: reconciliation changes only headline, subheadline, key_benefits,
\* features, testimonials, stats, assets.pdfs and assets.videos of the
\* accumulator: its source, source_type, raw_text, product name, description
\* and outcomes, trust_badges, ctas, brand and assets.images stay those of the
\* first extracted record, whatever a later record holds, and the later
\* records stay as they were extracted.
C27_ReconcileFrame ==
    Reconciling =>
        LET recs == SourceRecords IN
        /\ Len(all_extractions) = Len(recs)
        /\ OutsideMerge(Merged) = OutsideMerge(recs[1])
        /\ \A k \in 2..Len(recs) : all_extractions[k] = recs[k]

\* a page with no image and a call to action that is empty was reconciled
\* with a document that has images and a call to action: the lists grew, the
\* images and the call to action stayed empty
C27_Witness ==
    /\ pc = "extracted"
    /\ Len(all_extractions) >= 2
    /\ all_extractions[2].assets.images # <<>>
    /\ all_extractions[2].ctas.primary # ""
    /\ Merged.assets.images = <<>>
    /\ Merged.ctas.primary = ""
    /\ Merged.product.features # <<>>
    /\ Merged.assets.pdfs # <<>>


\* C28: in every BrandAnalysis analyze_brand returns, formality_level is the
\* one the returned tone maps to (casual if and only if the tone holds a
\* casual indicator, else formal if and only if it holds a formal indicator,
\* else professional), also when the tone was set by the user's preferences.
C28_FormalityFollowsTone ==
    Analyzed => out.formality_level = FormalityOf(out.tone)


\* run has returned and its caller, run or run_with_llm_reasoning, returns
CallerReturns == pc = "returned" /\ pc' = "done"

\* the step run_with_llm_reasoning records when the enhancement raised
EnhancementFailed ==
    /\ Len(result'.steps) > Len(result.steps)
    /\ result'.steps[Len(result'.steps)].name = "enhance"
    /\ result'.steps[Len(result'.steps)].status = "skipped"

LlmCalls == SelectSeq(calls, LAMBDA c : c.fn = "messages.create")

\* what run_with_llm_reasoning does to the result run returned
EnhancementStep ==
    CallerReturns =>
        /\ ~client => result' = result /\ calls' = calls
        /\ result.status = "error" => result' = result /\ calls' = calls
        /\ EnhancementFailed =>
              /\ result'.status = "review"
              /\ result' = [result EXCEPT !.steps = result'.steps]
              /\ Len(result'.steps) = Len(result.steps) + 1
              /\ SubSeq(result'.steps, 1, Len(result.steps)) = result.steps

\* C29: run_with_llm_reasoning is never worse than run: without a client it
\* returns what run returns; when run ended in ERROR the LLM is not called and
\* the result is returned as it is; when the enhancement fails the status stays
\* REVIEW, combined_brief, every other output and the earlier steps are those
\* of run, and exactly one step is appended.
C29_EnhancementNeverWorse ==
    /\ [][EnhancementStep]_vars
    /\ [](result.status = "error" => LlmCalls = <<>>)

\* the LLM was called and raised after a run that ended in REVIEW
C29_Witness ==
    /\ pc = "done"
    /\ entry = "run_with_llm_reasoning" /\ client
    /\ result.status = "review"
    /\ LlmCalls # <<>>
    /\ result.steps[Len(result.steps)].name = "enhance"
    /\ result.steps[Len(result.steps)].status = "skipped"
    /\ result.combined_brief =
          MergeToBrief(result.brand_markdown, result.audience_markdown, result.offer_markdown)


(***************************************************************************)
(* app.py: run_orchestration_stream.  The thread run_orchestrator runs the *)
(* orchestrator with progress_callback set and puts the outcome on         *)
(* progress_queue; the generator generate_events takes the events off the  *)
(* queue and yields them.  The two run at the same time.                   *)
(***************************************************************************)
\* how many heartbeats of one stream are looked at
MaxHeartbeats == 2

\* the steps Orchestrator.run and run_with_llm_reasoning notify, in order
RunSteps == <<"extract", "brand", "audience", "offer", "merge", "complete", "enhance">>

\* PROGRESS_STEPS.get(step, 50)
Percent(step) ==
    CASE step = "extract" -> 20
      [] step = "brand" -> 40
      [] step = "audience" -> 60
      [] step = "offer" -> 80
      [] step = "merge" -> 95
      [] step = "complete" -> 100
      [] OTHER -> 50

\* the event progress_callback puts
ProgressEvent(step) == [type |-> "progress", step |-> step, percent |-> Percent(step)]

CompleteEvent == [type |-> "complete"]
ErrorEvent == [type |-> "error"]
HeartbeatEvent == [type |-> "heartbeat"]

\* event['type'] in ['complete', 'error']
Terminal(e) == e.type \in {"complete", "error"}

\* progress_queue.put(e)
Put(e) ==
    /\ progress_queue' = Append(progress_queue, e)
    /\ enqueued' = Append(enqueued, e)
    /\ seen' = IF gpc = "get" THEN TRUE ELSE seen

\* a request: the steps its run notifies before it returns (a run that fails
\* stops notifying at the stage that failed), and what raises in the thread
\* outside run, if anything
StreamCases ==
    [steps : {SubSeq(RunSteps, 1, n) : n \in 1..Len(RunSteps)},
     raises : {"nothing", "Orchestrator", "to_dict"}]

InitStream ==
    /\ PipelineIdle
    /\ seed = 1
    /\ doc \in StreamCases
    /\ xpc = "idle"
    /\ out = None
    /\ raised = None
    /\ prev = None
    /\ progress_queue = <<>>
    /\ tpc = "start"
    /\ todo = doc.steps
    /\ enqueued = <<>>
    /\ gpc = "get"
    /\ event = None
    /\ streamed = <<>>
    /\ seen = FALSE

\* what the thread and the generator leave alone
idle == <<rvars, seed, doc, xpc, out, raised, prev>>

\* orchestrator = Orchestrator(); orchestrator.on_progress = progress_callback
StartOrchestrator ==
    /\ tpc = "start"
    /\ tpc' = IF doc.raises = "Orchestrator" THEN "except" ELSE "run"
    /\ UNCHANGED <<idle, progress_queue, todo, enqueued, gpc, event, streamed, seen>>

\* progress_callback(step, message), called by the orchestrator
ProgressCallback ==
    /\ tpc = "run"
    /\ todo # <<>>
    /\ Put(ProgressEvent(Head(todo)))
    /\ todo' = Tail(todo)
    /\ UNCHANGED <<idle, tpc, gpc, event, streamed>>

\* run has returned: progress_queue.put({'type': 'complete', 'result': result.to_dict()})
PutComplete ==
    /\ tpc = "run"
    /\ todo = <<>>
    /\ IF doc.raises = "to_dict"
       THEN tpc' = "except" /\ UNCHANGED <<progress_queue, enqueued, seen>>
       ELSE tpc' = "finished" /\ Put(CompleteEvent)
    /\ UNCHANGED <<idle, todo, gpc, event, streamed>>

\* except Exception as e: progress_queue.put({'type': 'error', ...})
PutError ==
    /\ tpc = "except"
    /\ Put(ErrorEvent)
    /\ tpc' = "finished"
    /\ UNCHANGED <<idle, todo, gpc, event, streamed>>

Heartbeats == Len(SelectSeq(streamed, LAMBDA e : e.type = "heartbeat"))

\* event = progress_queue.get(timeout=30) returns the oldest event
Get ==
    /\ gpc = "get"
    /\ progress_queue # <<>>
    /\ event' = Some(Head(progress_queue))
    /\ progress_queue' = Tail(progress_queue)
    /\ gpc' = "yield"
    /\ UNCHANGED <<idle, tpc, todo, enqueued, streamed, seen>>

\* a timeout that fires whatever the queue holds
EmptyWhateverQueued ==
    /\ gpc = "get"
    /\ Heartbeats < MaxHeartbeats
    /\ event' = Some(HeartbeatEvent)
    /\ gpc' = "yield"
    /\ UNCHANGED <<idle, tpc, todo, enqueued, progress_queue, streamed, seen>>

\* progress_queue.get(timeout=30) raises queue.Empty: the queue is empty when
\* the time is up
Empty ==
    /\ gpc = "get"
    /\ progress_queue = <<>>
    /\ Heartbeats < MaxHeartbeats
    /\ event' = Some(HeartbeatEvent)
    /\ gpc' = "yield"
    /\ UNCHANGED <<idle, tpc, todo, enqueued, progress_queue, streamed, seen>>

\* yield the event; break after a complete or error event, else get again
Yield ==
    /\ gpc = "yield"
    /\ streamed' = Append(streamed, event[1])
    /\ event' = None
    /\ gpc' = IF Terminal(event[1]) THEN "closed" ELSE "get"
    /\ seen' = (~Terminal(event[1]) /\ progress_queue # <<>>)
    /\ UNCHANGED <<idle, tpc, todo, enqueued, progress_queue>>

NextStream ==
    \/ StartOrchestrator
    \/ ProgressCallback
    \/ PutComplete
    \/ PutError
    \/ Get
    \/ Empty
    \/ Yield

\* the server keeps iterating the generator while the client is connected
SpecStream ==
    InitStream /\ [][NextStream]_vars /\ WF_vars(Get) /\ WF_vars(Yield)

\* the events yielded that came off the queue
Delivered == SelectSeq(streamed, LAMBDA e : e.type # "heartbeat")

\* the event the generator took off the queue and has not yielded yet
InHand == IF event # None /\ event[1].type # "heartbeat" THEN event ELSE <<>>

TerminalsOf(events) == SelectSeq(events, Terminal)

StreamClosed == gpc = "closed"

\* events come out in the order they were put, none lost or repeated; the
\* thread puts at most one terminal event and nothing after it; the stream
\* ends with that event and nothing follows it; a heartbeat is decided only
\* after a get during which the queue never held an event
StreamInv ==
    /\ Delivered \o InHand \o progress_queue = enqueued
    /\ Len(TerminalsOf(enqueued)) <= 1
    /\ \A k \in 1..(Len(enqueued) - 1) : ~Terminal(enqueued[k])
    /\ tpc = "finished" <=> TerminalsOf(enqueued) # <<>>
    /\ \A k \in 1..(Len(streamed) - 1) : ~Terminal(streamed[k])
    /\ StreamClosed <=> TerminalsOf(streamed) # <<>>
    /\ StreamClosed =>
          /\ Terminal(streamed[Len(streamed)])
          /\ Len(TerminalsOf(streamed)) = 1
          /\ Delivered = enqueued
          /\ tpc = "finished"
    /\ (gpc = "yield" /\ event[1].type = "heartbeat") => ~seen

\* C30: under every interleaving of the orchestrator thread and the
\* generator, the events are delivered in the order they were put; the stream
\* holds exactly one terminal event (complete or error), which is its last
\* event, and every progress event is delivered before it; a heartbeat is
\* sent only when the queue stayed empty for the whole wait; and once the
\* orchestrator thread has finished the stream ends.
C30_StreamOrderedAndClosed ==
    /\ []StreamInv
    /\ (tpc = "finished") ~> StreamClosed

\* a stream that sent a heartbeat, then every step of a run, then complete
C30_Witness ==
    /\ StreamClosed
    /\ Len(streamed) > Len(RunSteps)
    /\ streamed[1].type = "heartbeat"
    /\ streamed[Len(streamed)].type = "complete"
    /\ Len(Delivered) = Len(RunSteps) + 1

====
